---- MODULE Spec2Model ----
(***************************************************************************)
(* A model of the radar service-detection scanner: the scan pipeline       *)
(* (start_scan), the per-target scan engine (scan, run_scan,               *)
(* run_service_probe_and_match, run_service_probe), the match engine       *)
(* (check_match, get_match), the output shaper (RadarOutput::from) and the *)
(* writer task (write_results).                                            *)
(***************************************************************************)
EXTENDS Integers, Sequences, FiniteSets, TLC

\* ------------------------------------------------------------------ bounds

\* The longest input stream of targets.
MaxTargets == 3

\* The largest value of config.max_concurrent_scans.
MaxConcurrent == 2

\* The longest matches list and soft_matches list of a probe under check_match.
MaxRules == 2

\* The most lines of a probes file.
MaxLines == 3

\* The seconds a scan is followed for.
MaxClock == 16

\* The capacity of the output channel (MAX_BUFFERED_RESULTS, 10000 in
\* main.rs), scaled down so that the channel does fill.
ChannelCap == 1

\* ------------------------------------------------------------- Option<T>

None == <<>>

Some(x) == <<x>>

IsSome(o) == o # <<>>

Unwrap(o) == o[1]

\* ------------------------------------------------------- bytes and base64

\* base64::encode over a byte sequence: each group of three bytes gives four
\* sextets (0..63); a last group of one or two bytes is padded with 64 ('=').
Encode(bytes) ==
  LET n == Len(bytes)
      byte(i) == IF i <= n THEN bytes[i] ELSE 0
      sextet(g, p) ==
        CASE p = 1 -> byte(3 * g - 2) \div 4
          [] p = 2 -> ( byte(3 * g - 2) % 4 ) * 16 + byte(3 * g - 1) \div 16
          [] p = 3 -> IF 3 * g - 1 > n THEN 64
                      ELSE ( byte(3 * g - 1) % 16 ) * 4 + byte(3 * g) \div 64
          [] p = 4 -> IF 3 * g > n THEN 64 ELSE byte(3 * g) % 64
  IN  [ j \in 1..( 4 * ( ( n + 2 ) \div 3 ) ) |->
          sextet(( j + 3 ) \div 4, ( ( j - 1 ) % 4 ) + 1) ]

\* str::starts_with on strings held as sequences of characters.
StartsWith(s, prefix) ==
  /\ Len(s) >= Len(prefix)
  /\ SubSeq(s, 1, Len(prefix)) = prefix

\* ----------------------------------------------------------- RadarError

ErrIo == [kind |-> "Io", r |-> <<>>]

ErrElapsed == [kind |-> "Elapsed", r |-> <<>>]

ErrTls == [kind |-> "Tls", r |-> <<>>]

NoDetection(r) == [kind |-> "NoDetection", r |-> r]

\* impl fmt::Display for RadarError
to_string(e) ==
  CASE e.kind = "Io" -> "connection refused"
    [] e.kind = "Elapsed" -> "deadline has elapsed"
    [] e.kind = "Tls" -> "tls handshake failed"
    [] e.kind = "NoDetection" -> "No Detection"

\* --------------------------------------------------------- match engine

\* Regex::is_match: a compiled regex is held as the set of responses it hits.
IsMatch(re, response) == response \in re

\* get_match: a clone of the rule when its regex hits the response.
get_match(service_match, response) ==
  IF IsMatch(service_match.re, response) THEN Some(service_match) ELSE None

RECURSIVE FirstHit(_, _)
FirstHit(list, response) ==
  IF list = <<>> THEN None
  ELSE IF IsSome(get_match(Head(list), response))
       THEN get_match(Head(list), response)
       ELSE FirstHit(Tail(list), response)

\* Option::unwrap_or(&empty) on a directive list
UnwrapOrEmpty(o) == IF IsSome(o) THEN Unwrap(o) ELSE <<>>

\* A check_match that walks the soft matches before the hard ones.
check_matchSoftFirst(service_probe, response) ==
  LET matches == UnwrapOrEmpty(service_probe.directives.matches)
      soft_matches == UnwrapOrEmpty(service_probe.directives.soft_matches)
      soft == FirstHit(soft_matches, response)
  IN  IF IsSome(soft) THEN soft ELSE FirstHit(matches, response)

\* ServiceProbe::check_match: hard matches first, then soft matches.
check_match(service_probe, response) ==
  LET matches == UnwrapOrEmpty(service_probe.directives.matches)
      soft_matches == UnwrapOrEmpty(service_probe.directives.soft_matches)
      hard == FirstHit(matches, response)
  IN  IF IsSome(hard) THEN hard ELSE FirstHit(soft_matches, response)

\* --------------------------------------------------------- output shaper

\* RadarOutput::new (the wall-clock timestamp is left out)
NewOutput(target) ==
  [ target |-> target,
    tls |-> None,
    tls_response |-> None,
    tls_service_match |-> None,
    response |-> None,
    service_match |-> None,
    error |-> None,
    tls_error |-> None ]

update_detection_with_tls(o, detection, tls_wrapped_detection) ==
  [ o EXCEPT !.tls = Some(TRUE),
             !.response = Some(detection.response),
             !.service_match = Some(detection.service_match),
             !.tls_response = Some(tls_wrapped_detection.response),
             !.tls_service_match = Some(tls_wrapped_detection.service_match) ]

\* A shaper that files the TLS pass's error under error.
update_detection_with_tls_errorAsError(o, detection, e) ==
  [ o EXCEPT !.tls = Some(TRUE),
             !.response = Some(detection.response),
             !.service_match = Some(detection.service_match),
             !.tls_response = IF e.kind = "NoDetection"
                              THEN Some(Encode(e.r)) ELSE @,
             !.error = Some(to_string(e)) ]

update_detection_with_tls_error(o, detection, e) ==
  [ o EXCEPT !.tls = Some(TRUE),
             !.response = Some(detection.response),
             !.service_match = Some(detection.service_match),
             !.tls_response = IF e.kind = "NoDetection"
                              THEN Some(Encode(e.r)) ELSE @,
             !.tls_error = Some(to_string(e)) ]

update_detection_without_tls(o, d) ==
  [ o EXCEPT !.tls = Some(FALSE),
             !.response = Some(d.response),
             !.service_match = Some(d.service_match) ]

\* A shaper that keeps no response for an error.
update_errorNoResponse(o, e) ==
  [ o EXCEPT !.tls = Some(FALSE),
             !.error = Some(to_string(e)) ]

update_error(o, e) ==
  [ o EXCEPT !.tls = Some(FALSE),
             !.response = IF e.kind = "NoDetection"
                          THEN Some(Encode(e.r)) ELSE @,
             !.error = Some(to_string(e)) ]

\* Result<T, RadarError>
Ok(v) == [ok |-> TRUE, v |-> v]

Err(e) == [ok |-> FALSE, v |-> e]

\* enum Detection
DetectionWithoutTls(d) == [tag |-> "WithoutTls", detection |-> d]

DetectionWithTls(d, r) ==
  [tag |-> "WithTls", detection |-> d, tls_wrapped_result |-> r]

\* impl From<(Target, Result<Detection, RadarError>)> for RadarOutput
ToRadarOutput(target, r) ==
  LET output == NewOutput(target)
  IN  IF r.ok
      THEN IF r.v.tag = "WithTls"
           THEN IF r.v.tls_wrapped_result.ok
                THEN update_detection_with_tls(
                       output, r.v.detection, r.v.tls_wrapped_result.v)
                ELSE update_detection_with_tls_error(
                       output, r.v.detection, r.v.tls_wrapped_result.v)
           ELSE update_detection_without_tls(output, r.v.detection)
      ELSE update_error(output, r.v)

\* ------------------------------------------------------- probe catalogs

SvcSsh == <<"s", "s", "h">>

SvcHttp == <<"h", "t", "t", "p">>

SvcSsl == <<"s", "s", "l">>

SvcSslHttp == <<"s", "s", "l", "/", "h", "t", "t", "p">>

\* Responses a peer may send: nothing before closing (a read of 0 bytes), an
\* SSH banner, a TLS alert record, an HTTP reply.
RespEof == <<>>

RespSsh == <<83>>

RespTlsAlert == <<21, 3>>

RespHttp == <<72, 84, 84>>

\* struct Match
Match(service, pattern, re) ==
  [ service |-> service, pattern |-> pattern, re |-> re,
    pattern_options |-> "", version_info |-> "" ]

\* struct ServiceProbe { probe, directives }
ServiceProbe(name, data, matches, soft_matches) ==
  [ probe |-> [ transport_protocol |-> "TCP", name |-> name,
                data |-> data, no_payload |-> FALSE ],
    directives |-> [ matches |-> matches, soft_matches |-> soft_matches ] ]

\* No TCP probe at all (a probes file with UDP probes only).
CatEmpty == <<>>

\* The NULL probe first, then a probe with a payload; the second probe also
\* classifies a TLS alert as an ssl service.
CatNullFirst ==
  << ServiceProbe("NULL", <<>>,
       Some(<< Match(SvcSsh, "^SSH-", {RespSsh}) >>), None),
     ServiceProbe("GenericLines", <<13, 10>>,
       Some(<< Match(SvcHttp, "^HTTP/1", {RespHttp}) >>),
       Some(<< Match(SvcSsl, "^\\x15\\x03", {RespTlsAlert}) >>)) >>

\* A probe with a payload first, then the NULL probe.
CatNullLast ==
  << ServiceProbe("Foo", <<88>>,
       Some(<< Match(SvcSslHttp, "^\\x15", {RespTlsAlert}),
               Match(SvcHttp, "^HTTP/1", {RespHttp}) >>), None),
     ServiceProbe("NULL", <<>>,
       None, Some(<< Match(SvcSsh, "^SSH-", {RespSsh}) >>)) >>

\* One probe with a payload, whose rules know an ssl service and http.
CatSingle ==
  << ServiceProbe("Foo", <<88>>,
       Some(<< Match(SvcSsl, "^\\x15", {RespTlsAlert}),
               Match(SvcHttp, "^HTTP/1", {RespHttp}) >>), None) >>

\* Three probes, the NULL probe in the middle; the last has no rule at all.
CatThree ==
  << ServiceProbe("GetRequest", <<71, 69, 84>>,
       Some(<< Match(SvcHttp, "^HTTP/1", {RespHttp}) >>), None),
     ServiceProbe("NULL", <<>>,
       None, Some(<< Match(SvcSsl, "^\\x15", {RespTlsAlert}) >>)),
     ServiceProbe("Help", <<72>>, None, None) >>

Catalogs == {CatEmpty, CatSingle, CatNullFirst, CatNullLast, CatThree}

RECURSIVE HitBy(_)
HitBy(list) ==
  IF list = <<>> THEN {} ELSE Head(list).re \cup HitBy(Tail(list))

\* The responses a peer may send: one for each response the rules of the
\* catalog tell apart, and the read of 0 bytes, which no rule hits.
Responses(catalog) ==
  {RespEof} \cup
  UNION { HitBy(UnwrapOrEmpty(catalog[k].directives.matches)) \cup
          HitBy(UnwrapOrEmpty(catalog[k].directives.soft_matches)) :
          k \in DOMAIN catalog }

\* ------------------------------------------------------------------ state

VARIABLES
  probes,      \* ServiceProbes.tcp_probes, loaded once at startup
  config,      \* ScanConfig
  targets,     \* the input stream: the targets not yet pulled
  inflight,    \* Buffered's in-progress queue, in submission order
  sending,     \* for_each's pending tx.send(d) future: Option<RadarOutput>
  chan,        \* the records buffered in the mpsc channel
  written,     \* the lines write_results has written and flushed
  pipeline,    \* start_scan: "running", "returned" or "panicked"
  sent,        \* history: the targets of the records sent, in send order
  pulled,      \* history: the targets pulled from the stream, in pull order
  arg,         \* the input of a function called on its own (or None)
  ret,         \* what that call returned (or None, before the call)
  clock,       \* the seconds a scan has spent waiting, and on what
  writer       \* write_results: its place in the loop, the record in hand,
               \* what the BufWriter holds unflushed, and the count n

vars ==
  << probes, config, targets, inflight, sending, chan, written, pipeline, sent,
     pulled, arg, ret, clock, writer >>

\* --------------------------------------------------------- scan engine

\* One scan(target, ..) future. st is its suspension point; sock says that
\* the stream of the current loop iteration is in scope, its socket open. log
\* is history: one entry per probe attempt that has ended: the pass (tls), the
\* probe (k), whether the stream was TLS-wrapped, how the attempt ended and
\* the bytes read; opened is history too: the connections opened so far. buf
\* is run_scan's read buffer, held as its bytes up to the last one ever
\* written; the bytes after them are the zeros of vec![0u8; 1600].
NewScan(target) ==
  [ t |-> target,
    st |-> "connect",
    tls |-> FALSE,
    k |-> 1,
    sock |-> FALSE,
    secured |-> FALSE,
    opened |-> 0,
    buf |-> <<>>,
    detection |-> None,
    out |-> None,
    log |-> <<>> ]

Logged(s, ev, r) ==
  [ s EXCEPT !.log = Append(@, [ tls |-> s.tls, k |-> s.k, secured |-> s.secured,
                                 ev |-> ev, r |-> r ]) ]

\* scan() returns the shaped record; the socket of the last attempt is dropped.
Finish(s, result) ==
  [ s EXCEPT !.st = "done", !.sock = FALSE, !.secured = FALSE,
             !.out = Some(ToRadarOutput(s.t, result)) ]

\* A rescan after every detection.
NeedsTlsPassAlways(detection) == TRUE

\* A rescan only of a service named exactly "ssl".
NeedsTlsPassExact(detection) ==
  detection.service_match.service = <<"s", "s", "l">>

\* scan(): detection.service_match.service.starts_with("ssl")
NeedsTlsPass(detection) ==
  StartsWith(detection.service_match.service, <<"s", "s", "l">>)

\* scan(): what follows the return of a pass of run_scan.
EndPass(s, result) ==
  IF ~s.tls
  THEN IF result.ok
       THEN IF NeedsTlsPass(result.v)
            THEN [ s EXCEPT !.st = "connect", !.tls = TRUE, !.k = 1,
                            !.sock = FALSE, !.secured = FALSE,
                            !.buf = <<>>,
                            !.detection = Some(result.v) ]
            ELSE Finish(s, Ok(DetectionWithoutTls(result.v)))
       ELSE Finish(s, Err(result.v))
  ELSE Finish(s, Ok(DetectionWithTls(Unwrap(s.detection), result)))

\* The Ok arm without its return: the loop goes on after a match.
MatchArmNoReturn(res, probe) ==
  IF res.ok THEN "continue"
  ELSE IF res.v.kind = "NoDetection" THEN "continue"
  ELSE IF res.v.kind = "Elapsed"
       THEN IF probe.probe.name # "NULL" THEN "return" ELSE "continue"
  ELSE "return"

\* The Elapsed arm without its test of the probe's name: every read timeout
\* is swallowed.
MatchArmSwallowAll(res, probe) ==
  IF res.ok THEN "return"
  ELSE IF res.v.kind = "NoDetection" THEN "continue"
  ELSE IF res.v.kind = "Elapsed" THEN "continue"
  ELSE "return"

\* No Elapsed arm: a read timeout falls to the last arm and is returned.
MatchArmFatalTimeout(res, probe) ==
  IF res.ok THEN "return"
  ELSE IF res.v.kind = "NoDetection" THEN "continue"
  ELSE "return"

\* run_scan: the arms of the match on run_service_probe_and_match's result.
MatchArm(res, probe) ==
  IF res.ok THEN "return"
  ELSE IF res.v.kind = "NoDetection" THEN "continue"
  ELSE IF res.v.kind = "Elapsed"
       THEN IF probe.probe.name # "NULL" THEN "return" ELSE "continue"
  ELSE "return"

\* run_scan: the for loop steps to the next probe of tcp_probes.
NextProbe(k) == k + 1

\* A loop whose stream outlives the iteration.
ContinueKeepsStream(s) ==
  IF NextProbe(s.k) \in 1..Len(probes)
  THEN [ s EXCEPT !.st = "connect", !.k = NextProbe(s.k) ]
  ELSE [ s EXCEPT !.st = "panicked" ]

\* run_scan: the end of one iteration of the loop; the stream is dropped. When
\* the loop runs out of probes, unreachable!() panics.
Continue(s) ==
  IF NextProbe(s.k) \in 1..Len(probes)
  THEN [ s EXCEPT !.st = "connect", !.k = NextProbe(s.k),
                  !.sock = FALSE, !.secured = FALSE ]
  ELSE [ s EXCEPT !.st = "panicked", !.sock = FALSE, !.secured = FALSE ]

AfterProbe(s, res) ==
  IF MatchArm(res, probes[s.k]) = "return" THEN EndPass(s, res) ELSE Continue(s)

\* run_service_probe_and_match on the bytes read.
MatchResponse(service_probe, response) ==
  LET m == check_match(service_probe, response)
  IN  IF IsSome(m)
      THEN Ok([response |-> Encode(response), service_match |-> Unwrap(m)])
      ELSE Err(NoDetection(response))

\* The stage after the connection is ready: write_all only if the payload is
\* not empty.
IoStage(service_probe) ==
  IF Len(service_probe.probe.data) > 0 THEN "write" ELSE "read"

\* A panic in a scan unwinds start_scan: every other scan is dropped with it.
Dropped(s) == [ s EXCEPT !.st = "dropped", !.sock = FALSE, !.secured = FALSE ]

\* The scan in slot i takes a step to s2.
Polled(i, s2) ==
  IF s2.st = "panicked"
  THEN /\ inflight' = [ j \in DOMAIN inflight |->
                          IF j = i THEN s2 ELSE Dropped(inflight[j]) ]
       /\ pipeline' = "panicked"
  ELSE /\ inflight' = [ inflight EXCEPT ![i] = s2 ]
       /\ pipeline' = pipeline

\* start_scan polls its scans only while no send is pending.
\* A for_each that polls its stream whether or not a send is pending.
NoSendPendingIgnored == TRUE

\* for_each polls its pending send future first and polls the stream (the
\* Buffered queue and the scans in it) only when there is none.
NoSendPending == sending = None

CanPoll(i) ==
  /\ pipeline = "running"
  /\ NoSendPending
  /\ i \in DOMAIN inflight

\* ---------------------------------------------------------------- actions

\* buffer_unordered-like pulling with no limit.
CanPullAlways(queue, max) == TRUE

\* Buffered pulls the next target while fewer than max scans are queued.
CanPull(queue, max) == Len(queue) < max

\* The first poll of a scan enters run_scan's loop; with no TCP probe the loop
\* body never runs and unreachable!() panics.
Started(target) ==
  IF probes = <<>> THEN [ NewScan(target) EXCEPT !.st = "panicked" ]
  ELSE NewScan(target)

Pull ==
  /\ pipeline = "running"
  /\ NoSendPending
  /\ targets # <<>>
  /\ CanPull(inflight, config.max_concurrent_scans)
  /\ targets' = Tail(targets)
  /\ LET s == Started(Head(targets))
     IN  IF s.st = "panicked"
         THEN /\ inflight' = [ j \in DOMAIN inflight |-> Dropped(inflight[j]) ]
                               \o << s >>
              /\ pipeline' = "panicked"
         ELSE /\ inflight' = Append(inflight, s)
              /\ pipeline' = pipeline
  /\ pulled' = Append(pulled, Head(targets))
  /\ UNCHANGED << writer, clock, arg, ret, probes, config, sending, chan, written, sent >>

ConnectOk(i) ==
  /\ CanPoll(i)
  /\ inflight[i].st = "connect"
  /\ Polled(i, [ inflight[i] EXCEPT
                   !.sock = TRUE,
                   !.opened = @ + 1,
                   !.st = IF inflight[i].tls THEN "handshake"
                          ELSE IoStage(probes[inflight[i].k]) ])
  /\ UNCHANGED << writer, clock, arg, ret, probes, config, targets, sending, chan, written, sent, pulled >>

\* A connect whose timeout on the probe named NULL is swallowed as a read
\* timeout is.
ConnectErrorNullTolerant(s, e) ==
  IF e.kind = "Elapsed" /\ probes[s.k].probe.name = "NULL"
  THEN Continue(s)
  ELSE EndPass(s, Err(e))

\* run_scan: the two ? after the connect; the Elapsed of the timeout and the
\* io::Error of the connect are returned from the pass, whatever the probe.
ConnectError(s, e) == EndPass(s, Err(e))

\* timeout(TIMEOUT, TcpStream::connect).await??
ConnectFail(i, e) ==
  /\ CanPoll(i)
  /\ inflight[i].st = "connect"
  /\ e \in {ErrIo, ErrElapsed}
  /\ Polled(i, ConnectError(
       Logged(inflight[i],
              IF e.kind = "Elapsed" THEN "connect_timeout" ELSE "connect_failed",
              <<>>),
       e))
  /\ UNCHANGED << writer, clock, arg, ret, probes, config, targets, sending, chan, written, sent, pulled >>

HandshakeOk(i) ==
  /\ CanPoll(i)
  /\ inflight[i].st = "handshake"
  /\ Polled(i, [ inflight[i] EXCEPT
                   !.secured = TRUE,
                   !.st = IoStage(probes[inflight[i].k]) ])
  /\ UNCHANGED << writer, clock, arg, ret, probes, config, targets, sending, chan, written, sent, pulled >>

\* tls_connector.connect(..).await?
HandshakeFail(i) ==
  /\ CanPoll(i)
  /\ inflight[i].st = "handshake"
  /\ Polled(i, EndPass(Logged(inflight[i], "handshake_failed", <<>>), Err(ErrTls)))
  /\ UNCHANGED << writer, clock, arg, ret, probes, config, targets, sending, chan, written, sent, pulled >>

WriteOk(i) ==
  /\ CanPoll(i)
  /\ inflight[i].st = "write"
  /\ Polled(i, [ inflight[i] EXCEPT !.st = "read" ])
  /\ UNCHANGED << writer, clock, arg, ret, probes, config, targets, sending, chan, written, sent, pulled >>

\* stream.write_all(&request).await?
WriteFail(i) ==
  /\ CanPoll(i)
  /\ inflight[i].st = "write"
  /\ Polled(i, AfterProbe(Logged(inflight[i], "write_failed", <<>>), Err(ErrIo)))
  /\ UNCHANGED << writer, clock, arg, ret, probes, config, targets, sending, chan, written, sent, pulled >>

\* let mut buf = vec![0u8; 1600]
BufLen == 1600

\* stream.read(&mut buf) with data waiting on the stream: as many bytes as
\* fit are copied to the front of the buffer; the bytes behind them stay.
stream_read(buf, data) ==
  LET bytes_read == IF Len(data) < BufLen THEN Len(data) ELSE BufLen
  IN  [ bytes_read |-> bytes_read,
        buf |-> SubSeq(data, 1, bytes_read)
                \o SubSeq(buf, bytes_read + 1, Len(buf)) ]

\* The buffer up to the last byte ever written.
FilledWhole(buf, bytes_read) == buf

\* &buf[..bytes_read]
Filled(buf, bytes_read) == SubSeq(buf, 1, bytes_read)

\* run_service_probe_and_match once the read has returned: the buffer after
\* the call and the result.
run_service_probe_and_match(buf, data, service_probe) ==
  LET done == stream_read(buf, data)
  IN  [ buf |-> done.buf,
        bytes_read |-> done.bytes_read,
        result |-> MatchResponse(service_probe,
                                 Filled(done.buf, done.bytes_read)) ]

\* The read returns bytes; the response is matched and the arm taken.
ReadBytes(i, r) ==
  /\ CanPoll(i)
  /\ inflight[i].st = "read"
  /\ r \in Responses(probes)
  /\ LET run == run_service_probe_and_match(inflight[i].buf, r,
                                            probes[inflight[i].k])
     IN  Polled(i, AfterProbe(
           Logged([ inflight[i] EXCEPT !.buf = run.buf ],
                  IF run.result.ok THEN "match" ELSE "miss",
                  SubSeq(r, 1, run.bytes_read)),
           run.result))
  /\ UNCHANGED << writer, clock, arg, ret, probes, config, targets, sending, chan, written, sent, pulled >>

\* timeout(TIMEOUT, stream.read(&mut buf)).await??
ReadFail(i, e) ==
  /\ CanPoll(i)
  /\ inflight[i].st = "read"
  /\ e \in {ErrIo, ErrElapsed}
  /\ Polled(i, AfterProbe(
       Logged(inflight[i],
              IF e.kind = "Elapsed" THEN "read_timeout" ELSE "read_failed", <<>>),
       Err(e)))
  /\ UNCHANGED << writer, clock, arg, ret, probes, config, targets, sending, chan, written, sent, pulled >>

\* buffer_unordered: any finished scan is yielded.
YieldableUnordered(queue) ==
  { i \in DOMAIN queue : queue[i].st = "done" }

\* FuturesOrdered yields the head of the queue once it has finished.
Yieldable(queue) ==
  IF queue # <<>> /\ queue[1].st = "done" THEN {1} ELSE {}

RemoveAt(queue, i) ==
  SubSeq(queue, 1, i - 1) \o SubSeq(queue, i + 1, Len(queue))

\* for_each takes the next record and creates its send future.
Yield ==
  /\ pipeline = "running"
  /\ NoSendPending
  /\ \E i \in Yieldable(inflight) :
       /\ sending' = inflight[i].out
       /\ inflight' = RemoveAt(inflight, i)
  /\ UNCHANGED << writer, clock, arg, ret, probes, config, targets, chan, written, pipeline, sent, pulled >>

\* The Receiver is alive: write_results has not returned an Err. (It returns
\* Ok only after every Sender is gone.)
ReceiverOpen == writer.pc # "failed"

\* tx.send(d).await completes once the channel has room.
Send ==
  /\ pipeline = "running"
  /\ IsSome(sending)
  /\ ReceiverOpen
  /\ Len(chan) < ChannelCap
  /\ chan' = Append(chan, Unwrap(sending))
  /\ sent' = Append(sent, Unwrap(sending).target)
  /\ sending' = None
  /\ UNCHANGED << writer, clock, arg, ret, probes, config, targets, inflight, written, pipeline, pulled >>

\* The stream is done and the queue is empty: start_scan returns. Buffered
\* sees the end of the stream by polling it, which it does only while the
\* queue has room.
Return ==
  /\ pipeline = "running"
  /\ NoSendPending
  /\ targets = <<>>
  /\ inflight = <<>>
  /\ CanPull(inflight, config.max_concurrent_scans)
  /\ pipeline' = "returned"
  /\ UNCHANGED << writer, clock, arg, ret, probes, config, targets, inflight, sending, chan, written, sent,
                  pulled >>

\* n += 1, and a count that skips the increment.
CountedNot(n) == n

Counted(n) == n + 1

\* write_results: one iteration of the while let loop, from rx.recv() to
\* n += 1, with every write and the flush succeeding.
WriterRecv ==
  /\ writer.pc = "recv"
  /\ chan # <<>>
  /\ written' = Append(written, Head(chan))
  /\ chan' = Tail(chan)
  /\ writer' = [ writer EXCEPT !.n = Counted(@) ]
  /\ UNCHANGED << clock, arg, ret, probes, config, targets, inflight, sending, pipeline, sent,
                  pulled >>

\* No time has passed.
ZeroClock == [ now |-> 0, stage |-> <<>>, since |-> 0 ]

\* write_results before its first rx.recv(): let mut n = 0.
NewWriter == [ pc |-> "recv", result |-> None, buf |-> <<>>, n |-> 0 ]

Idle ==
  /\ clock = ZeroClock
  /\ writer = NewWriter
  /\ inflight = <<>>
  /\ sending = None
  /\ chan = <<>>
  /\ written = <<>>
  /\ pipeline = "running"
  /\ sent = <<>>
  /\ pulled = <<>>

\* No function is called on its own while the pipeline runs.
NoCall ==
  /\ arg = None
  /\ ret = None

\* The pipeline: streams of up to MaxTargets targets.
Init ==
  /\ probes = CatSingle
  /\ config \in [ max_concurrent_scans : 0..MaxConcurrent ]
  /\ targets \in { [ i \in 1..n |-> i ] : n \in 0..MaxTargets }
  /\ Idle
  /\ NoCall

\* The scan engine: one target, against every catalog.
InitScan ==
  /\ probes \in Catalogs
  /\ config \in [ max_concurrent_scans : {1} ]
  /\ targets = << 1 >>
  /\ Idle
  /\ NoCall

Next ==
  \/ Pull
  \/ \E i \in DOMAIN inflight : ConnectOk(i)
  \/ \E i \in DOMAIN inflight : \E e \in {ErrIo, ErrElapsed} : ConnectFail(i, e)
  \/ \E i \in DOMAIN inflight : HandshakeOk(i)
  \/ \E i \in DOMAIN inflight : HandshakeFail(i)
  \/ \E i \in DOMAIN inflight : WriteOk(i)
  \/ \E i \in DOMAIN inflight : WriteFail(i)
  \/ \E i \in DOMAIN inflight : \E r \in Responses(probes) : ReadBytes(i, r)
  \/ \E i \in DOMAIN inflight : \E e \in {ErrIo, ErrElapsed} : ReadFail(i, e)
  \/ Yield
  \/ Send
  \/ Return
  \/ WriterRecv

Spec == Init /\ [][Next]_vars

SpecScan == InitScan /\ [][Next]_vars

\* ------------------------------------------------------------------ time

\* const TIMEOUT: u64 = 5
TIMEOUT == 5

\* The deadline, in seconds, of the await a scan is suspended in: connect
\* and read are wrapped in timeout(Duration::from_secs(TIMEOUT), ..); the TLS
\* handshake and write_all are awaited as they are.
Deadline(st) ==
  IF st \in {"connect", "read"} THEN Some(TIMEOUT) ELSE None

\* A second passes while the scan in slot i is suspended in an await. The
\* clock notes which await that is and when it began; an await under a
\* deadline is left (by its result or by Elapsed) before the deadline passes.
Tick(i) ==
  /\ pipeline = "running"
  /\ i \in DOMAIN inflight
  /\ inflight[i].st \in {"connect", "handshake", "write", "read"}
  /\ clock.now < MaxClock
  /\ LET stage == << i, inflight[i].tls, inflight[i].k, inflight[i].st >>
         since == IF clock.stage = stage THEN clock.since ELSE clock.now
     IN  /\ IsSome(Deadline(inflight[i].st)) =>
              clock.now + 1 < since + Unwrap(Deadline(inflight[i].st))
         /\ clock' = [ now |-> clock.now + 1, stage |-> stage,
                       since |-> since ]
  /\ UNCHANGED << writer, arg, ret, probes, config, targets, inflight, sending, chan,
                  written, pipeline, sent, pulled >>

\* One target and the catalog of one probe with a payload, whose rules know
\* an ssl service.
InitClock ==
  /\ probes = CatSingle
  /\ config \in [ max_concurrent_scans : {1} ]
  /\ targets = << 1 >>
  /\ Idle
  /\ NoCall

\* The scan of one target, with time passing.
NextClock ==
  \/ Next
  \/ \E i \in DOMAIN inflight : Tick(i)

SpecClock == InitClock /\ [][NextClock]_vars

\* ----------------------------------------------------------- writer task

\* write_results step by step. writer.pc is the await the task is suspended
\* at: "recv" (rx.recv()), "json" and "newline" (the two write_all), "flush";
\* "done" after Ok(n), "failed" after a ? returned an io::Error, "aborted"
\* when the runtime was shut down under it. serde_json::to_vec has no failing
\* case on a RadarOutput (strings, bools and Options of them). A record's
\* bytes are taken to fit the BufWriter's buffer, so they reach the file at
\* the flush.

Json(result) == [ kind |-> "json", of |-> Some(result) ]

Newline == [ kind |-> "newline", of |-> None ]

\* The whole lines among the pieces handed to the file.
RECURSIVE LinesOf(_)
LinesOf(pieces) ==
  IF Len(pieces) >= 2 /\ pieces[1].kind = "json" /\ pieces[2].kind = "newline"
  THEN << Unwrap(pieces[1].of) >> \o LinesOf(SubSeq(pieces, 3, Len(pieces)))
  ELSE <<>>

\* Every Sender is gone: start_scan returned, or unwound, dropping tx.
SendersGone == pipeline \in {"returned", "panicked"}

\* rx.recv().await gives Some(result).
WriterTake ==
  /\ writer.pc = "recv"
  /\ chan # <<>>
  /\ writer' = [ writer EXCEPT !.pc = "json", !.result = Some(Head(chan)) ]
  /\ chan' = Tail(chan)
  /\ UNCHANGED << clock, arg, ret, probes, config, targets, inflight, sending,
                  written, pipeline, sent, pulled >>

\* A channel that reports its end as soon as the Senders are gone.
RecvNoneEarly == SendersGone

\* rx.recv() gives None: the channel is empty and every Sender is gone.
RecvNone == chan = <<>> /\ SendersGone

\* rx.recv().await gives None: the loop ends and the task returns Ok(n).
WriterEnd ==
  /\ writer.pc = "recv"
  /\ RecvNone
  /\ writer' = [ writer EXCEPT !.pc = "done" ]
  /\ UNCHANGED << clock, arg, ret, probes, config, targets, inflight, sending,
                  chan, written, pipeline, sent, pulled >>

\* An io::Error leaves through ?: the task returns Err and rx is dropped; the
\* records still in the channel are never received.
WriterFailed == [ writer EXCEPT !.pc = "failed" ]

\* writer.write_all(&serde_json::to_vec(&result)?).await?
WriteJson(ok) ==
  /\ writer.pc = "json"
  /\ writer' = IF ok
               THEN [ writer EXCEPT !.pc = "newline",
                        !.buf = Append(@, Json(Unwrap(writer.result))) ]
               ELSE WriterFailed
  /\ UNCHANGED << chan, clock, arg, ret, probes, config, targets, inflight, sending,
                  written, pipeline, sent, pulled >>

\* writer.write_all(b"\n").await?
WriteNewline(ok) ==
  /\ writer.pc = "newline"
  /\ writer' = IF ok
               THEN [ writer EXCEPT !.pc = "flush", !.buf = Append(@, Newline) ]
               ELSE WriterFailed
  /\ UNCHANGED << chan, clock, arg, ret, probes, config, targets, inflight, sending,
                  written, pipeline, sent, pulled >>

\* writer.flush().await?; n += 1
Flush(ok) ==
  /\ writer.pc = "flush"
  /\ writer' = IF ok
               THEN [ writer EXCEPT !.pc = "recv", !.result = None,
                        !.buf = <<>>, !.n = Counted(@) ]
               ELSE WriterFailed
  /\ written' = IF ok THEN written \o LinesOf(writer.buf) ELSE written
  /\ UNCHANGED << chan, clock, arg, ret, probes, config, targets, inflight, sending,
                  pipeline, sent, pulled >>

\* tx.send(d).await.expect("failed to send") with the Receiver dropped: the
\* send is an Err and start_scan panics, dropping its scans.
SendFail ==
  /\ pipeline = "running"
  /\ IsSome(sending)
  /\ ~ReceiverOpen
  /\ pipeline' = "panicked"
  /\ inflight' = [ j \in DOMAIN inflight |-> Dropped(inflight[j]) ]
  /\ sending' = None
  /\ UNCHANGED << writer, clock, arg, ret, probes, config, targets, chan,
                  written, sent, pulled >>

\* A panic in start_scan unwinds run and main; the runtime is shut down and a
\* writer task still suspended at an await is dropped there.
WriterAbort ==
  /\ pipeline = "panicked"
  /\ writer.pc \in {"recv", "json", "newline", "flush"}
  /\ writer' = [ writer EXCEPT !.pc = "aborted" ]
  /\ UNCHANGED << clock, arg, ret, probes, config, targets, inflight, sending,
                  chan, written, pipeline, sent, pulled >>

\* The pipeline with the writer task taken step by step: streams of up to two
\* targets.
InitWriter ==
  /\ probes = CatSingle
  /\ config \in [ max_concurrent_scans : {MaxConcurrent} ]
  /\ targets \in { <<>>, << 1 >>, << 1, 2 >> }
  /\ Idle
  /\ NoCall

NextWriter ==
  \/ Pull
  \/ \E i \in DOMAIN inflight : ConnectOk(i)
  \/ \E i \in DOMAIN inflight : \E e \in {ErrIo, ErrElapsed} : ConnectFail(i, e)
  \/ \E i \in DOMAIN inflight : HandshakeOk(i)
  \/ \E i \in DOMAIN inflight : HandshakeFail(i)
  \/ \E i \in DOMAIN inflight : WriteOk(i)
  \/ \E i \in DOMAIN inflight : WriteFail(i)
  \/ \E i \in DOMAIN inflight : \E r \in Responses(probes) : ReadBytes(i, r)
  \/ \E i \in DOMAIN inflight : \E e \in {ErrIo, ErrElapsed} : ReadFail(i, e)
  \/ Yield
  \/ Send
  \/ SendFail
  \/ Return
  \/ WriterTake
  \/ WriterEnd
  \/ \E ok \in BOOLEAN : WriteJson(ok)
  \/ \E ok \in BOOLEAN : WriteNewline(ok)
  \/ \E ok \in BOOLEAN : Flush(ok)
  \/ WriterAbort

SpecWriter == InitWriter /\ [][NextWriter]_vars

\* The runtime polls a writer task that can go on, and a write or a flush to
\* the output file ends, by its result or by an io::Error.
WriterProgress ==
  /\ WF_vars(WriterTake)
  /\ WF_vars(WriterEnd)
  /\ WF_vars(\E ok \in BOOLEAN : WriteJson(ok))
  /\ WF_vars(\E ok \in BOOLEAN : WriteNewline(ok))
  /\ WF_vars(\E ok \in BOOLEAN : Flush(ok))

SpecWriterLive == InitWriter /\ [][NextWriter]_vars /\ WriterProgress

\* -------------------------------------------------------------- progress

\* What the code and the runtime make happen sooner or later. A connect and
\* a read are under timeout(TIMEOUT, ..), so each ends, by its result or by
\* Elapsed; the runtime polls a start_scan and a writer task that can go on.
\* write_all is awaited without a timeout, but a probe's payload is far
\* smaller than the send buffer of a socket just connected, so it ends with
\* no help from the peer. The TLS handshake is awaited without a timeout and
\* needs the peer's answer: it ends only if the peer lets it.
ConnectEnds ==
  \E i \in DOMAIN inflight :
    ConnectOk(i) \/ \E e \in {ErrIo, ErrElapsed} : ConnectFail(i, e)

ReadEnds ==
  \E i \in DOMAIN inflight :
    \/ \E r \in Responses(probes) : ReadBytes(i, r)
    \/ \E e \in {ErrIo, ErrElapsed} : ReadFail(i, e)

WriteEnds == \E i \in DOMAIN inflight : WriteOk(i) \/ WriteFail(i)

Progress ==
  /\ WF_vars(Pull)
  /\ WF_vars(ConnectEnds)
  /\ WF_vars(WriteEnds)
  /\ WF_vars(ReadEnds)
  /\ WF_vars(Yield)
  /\ WF_vars(Send)
  /\ WF_vars(Return)
  /\ WF_vars(WriterRecv)

\* The scan engine, one target against every catalog, with progress.
SpecScanLive == InitScan /\ [][Next]_vars /\ Progress

\* ------------------------------------------- functions called on their own

\* A call that returned v, and a call that panicked.
Returned(v) == [ kind |-> "returned", value |-> v ]

Panicked == [ kind |-> "panicked", value |-> <<>> ]

\* No scan runs while a function is called on its own.
NoScan ==
  /\ probes = CatEmpty
  /\ config = [ max_concurrent_scans |-> 0 ]
  /\ targets = <<>>
  /\ Idle

\* The sequences over S of length at most n.
SeqUpTo(S, n) == UNION { [ 1..k -> S ] : k \in 0..n }

\* Rules for check_match: two that hit an SSH banner, one that hits an SSH
\* banner and an HTTP reply, one that hits a TLS alert only.
RuleSsh == Match(SvcSsh, "^SSH-", {RespSsh})

RuleSshAgain == Match(SvcSslHttp, "^S", {RespSsh})

RuleText == Match(SvcHttp, "^[A-Z]", {RespSsh, RespHttp})

RuleAlert == Match(SvcSsl, "^\\x15", {RespTlsAlert})

RulePool == {RuleSsh, RuleSshAgain, RuleText, RuleAlert}

\* A matches or soft_matches field: absent, or a list of rules.
RuleLists == {None} \cup { Some(l) : l \in SeqUpTo(RulePool, MaxRules) }

InitMatch ==
  /\ NoScan
  /\ arg \in { Some([ fn |-> "check_match",
                       service_probe |-> ServiceProbe("Foo", <<88>>, m, sm),
                       response |-> r ]) :
                m \in RuleLists, sm \in RuleLists,
                r \in {RespEof, RespSsh, RespHttp, RespTlsAlert} }
  /\ ret = None

\* service_probe.check_match(&response)
CallCheckMatch ==
  /\ IsSome(arg)
  /\ Unwrap(arg).fn = "check_match"
  /\ ret = None
  /\ ret' = Some(Returned(check_match(Unwrap(arg).service_probe,
                                      Unwrap(arg).response)))
  /\ UNCHANGED << writer, clock, arg, probes, config, targets, inflight, sending, chan,
                  written, pipeline, sent, pulled >>

NextMatch == CallCheckMatch

SpecMatch == InitMatch /\ [][NextMatch]_vars

\* ---------------------------------------------------------------- strings

\* A &str is held as the sequence of its characters; offsets count from 0 as
\* in the source. Only ASCII text is modelled, so a byte offset and a character
\* offset coincide.

\* char::is_whitespace
is_whitespace(c) == c \in {" ", "\t", "\n", "\r"}

\* s[a..b] and s[a..]
Slice(s, a, b) == SubSeq(s, a + 1, b)

SliceFrom(s, a) == SubSeq(s, a + 1, Len(s))

\* str::trim_start and str::trim
RECURSIVE trim_start(_)
trim_start(s) ==
  IF s # <<>> /\ is_whitespace(Head(s)) THEN trim_start(Tail(s)) ELSE s

RECURSIVE trim_end(_)
trim_end(s) ==
  IF s # <<>> /\ is_whitespace(s[Len(s)])
  THEN trim_end(SubSeq(s, 1, Len(s) - 1)) ELSE s

trim(s) == trim_end(trim_start(s))

\* The length of the run of non-whitespace characters that starts s.
RECURSIVE TokenLen(_)
TokenLen(s) ==
  IF s = <<>> \/ is_whitespace(Head(s)) THEN 0 ELSE 1 + TokenLen(Tail(s))

\* str::split_whitespace().collect(): the maximal runs of non-whitespace.
RECURSIVE split_whitespace(_)
split_whitespace(s) ==
  LET t == trim_start(s)
      k == TokenLen(t)
  IN  IF t = <<>> THEN <<>>
      ELSE << Slice(t, 0, k) >> \o split_whitespace(SliceFrom(t, k))

\* [&str]::join(sep)
RECURSIVE join(_, _)
join(parts, sep) ==
  IF parts = <<>> THEN <<>>
  ELSE IF Len(parts) = 1 THEN parts[1]
  ELSE parts[1] \o sep \o join(Tail(parts), sep)

\* str::find(char): the offset of the first occurrence.
find(s, c) ==
  LET at == { i \in DOMAIN s : s[i] = c }
  IN  IF at = {} THEN None
      ELSE Some(( CHOOSE i \in at : \A j \in at : i <= j ) - 1)

\* str::chars().nth(n)
nth(s, n) == IF n < Len(s) THEN Some(s[n + 1]) ELSE None

\* str::contains(char)
contains(s, c) == \E i \in DOMAIN s : s[i] = c

\* The byte of each ASCII character of the texts (its UTF-8 encoding).
Ascii ==
  "\t" :> 9 @@ "\n" :> 10 @@ "\r" :> 13 @@ " " :> 32 @@ "!" :> 33 @@
  "\"" :> 34 @@ "#" :> 35 @@ "$" :> 36 @@ "%" :> 37 @@ "&" :> 38 @@
  "'" :> 39 @@ "(" :> 40 @@ ")" :> 41 @@ "*" :> 42 @@ "+" :> 43 @@
  "," :> 44 @@ "-" :> 45 @@ "." :> 46 @@ "/" :> 47 @@ "0" :> 48 @@
  "1" :> 49 @@ "2" :> 50 @@ "3" :> 51 @@ "4" :> 52 @@ "5" :> 53 @@
  "6" :> 54 @@ "7" :> 55 @@ "8" :> 56 @@ "9" :> 57 @@ ":" :> 58 @@
  ";" :> 59 @@ "<" :> 60 @@ "=" :> 61 @@ ">" :> 62 @@ "?" :> 63 @@
  "@" :> 64 @@ "A" :> 65 @@ "B" :> 66 @@ "C" :> 67 @@ "D" :> 68 @@
  "E" :> 69 @@ "F" :> 70 @@ "G" :> 71 @@ "H" :> 72 @@ "I" :> 73 @@
  "J" :> 74 @@ "K" :> 75 @@ "L" :> 76 @@ "M" :> 77 @@ "N" :> 78 @@
  "O" :> 79 @@ "P" :> 80 @@ "Q" :> 81 @@ "R" :> 82 @@ "S" :> 83 @@
  "T" :> 84 @@ "U" :> 85 @@ "V" :> 86 @@ "W" :> 87 @@ "X" :> 88 @@
  "Y" :> 89 @@ "Z" :> 90 @@ "[" :> 91 @@ "\\" :> 92 @@ "]" :> 93 @@
  "^" :> 94 @@ "_" :> 95 @@ "a" :> 97 @@ "b" :> 98 @@
  "c" :> 99 @@ "d" :> 100 @@ "e" :> 101 @@ "f" :> 102 @@ "g" :> 103 @@
  "h" :> 104 @@ "i" :> 105 @@ "j" :> 106 @@ "k" :> 107 @@ "l" :> 108 @@
  "m" :> 109 @@ "n" :> 110 @@ "o" :> 111 @@ "p" :> 112 @@ "q" :> 113 @@
  "r" :> 114 @@ "s" :> 115 @@ "t" :> 116 @@ "u" :> 117 @@ "v" :> 118 @@
  "w" :> 119 @@ "x" :> 120 @@ "y" :> 121 @@ "z" :> 122 @@ "{" :> 123 @@
  "|" :> 124 @@ "}" :> 125 @@ "~" :> 126


\* str::chars(): the code point of each character.
chars(s) == [ i \in DOMAIN s |-> Ascii[s[i]] ]

\* str::as_bytes on a String held as its code points: the UTF-8 encoding,
\* one byte below U+0080 and two bytes from U+0080 to U+07FF.
RECURSIVE as_bytes(_)
as_bytes(s) ==
  IF s = <<>> THEN <<>>
  ELSE ( IF Head(s) < 128 THEN << Head(s) >>
         ELSE << 192 + ( Head(s) \div 64 ), 128 + ( Head(s) % 64 ) >> )
       \o as_bytes(Tail(s))

\* The value of a hexadecimal digit, or -1.
HexVal(c) ==
  IF Ascii[c] \in 48..57 THEN Ascii[c] - 48
  ELSE IF Ascii[c] \in 97..102 THEN Ascii[c] - 87
  ELSE IF Ascii[c] \in 65..70 THEN Ascii[c] - 55
  ELSE -1

\* unescaper::unescape, giving the String as its code points, over the
\* escapes of the model's texts: \r \n \t \\ give one character each, \xHH
\* gives char::from(0xHH); an escape the model's texts do not use is taken as
\* unknown and is an error (None), as is an escape cut short.
RECURSIVE unescape(_)
unescape(s) ==
  IF s = <<>> THEN Some(<<>>)
  ELSE IF Head(s) # "\\"
  THEN LET rest == unescape(Tail(s))
       IN  IF IsSome(rest) THEN Some(<< Ascii[Head(s)] >> \o Unwrap(rest))
           ELSE None
  ELSE IF Len(s) < 2 THEN None
  ELSE IF s[2] = "x"
  THEN IF Len(s) < 4 \/ HexVal(s[3]) < 0 \/ HexVal(s[4]) < 0 THEN None
       ELSE LET rest == unescape(SliceFrom(s, 4))
            IN  IF IsSome(rest)
                THEN Some(<< 16 * HexVal(s[3]) + HexVal(s[4]) >> \o Unwrap(rest))
                ELSE None
  ELSE IF s[2] \notin {"r", "n", "t", "\\"} THEN None
  ELSE LET c == CASE s[2] = "r" -> 13
                  [] s[2] = "n" -> 10
                  [] s[2] = "t" -> 9
                  [] OTHER -> 92
           rest == unescape(SliceFrom(s, 2))
       IN  IF IsSome(rest) THEN Some(<< c >> \o Unwrap(rest)) ELSE None

\* ----------------------------------------------------------- line parsers

StrProbe == <<"P", "r", "o", "b", "e">>

StrMatch == <<"m", "a", "t", "c", "h">>

StrSoftmatch == <<"s", "o", "f", "t", "m", "a", "t", "c", "h">>

StrNoPayload == <<"n", "o", "-", "p", "a", "y", "l", "o", "a", "d">>

\* TransportProtocol::from_str
from_str(input) ==
  IF input = <<"T", "C", "P">> THEN Some("TCP")
  ELSE IF input = <<"U", "D", "P">> THEN Some("UDP")
  ELSE None

\* parse_probe_line. parts[3] of the source is parts[4] here: sequences count
\* from 1. A line of exactly three tokens passes the length test and panics
\* on parts[3]; unescape(..).unwrap() panics on an unknown escape.
parse_probe_line(line) ==
  LET parts == split_whitespace(line)
  IN
  IF Len(parts) < 3 \/ parts[1] # StrProbe THEN Returned(None)
  ELSE IF ~IsSome(from_str(parts[2])) THEN Returned(None)
  ELSE IF Len(parts) < 4 THEN Panicked
  ELSE
  LET transport_protocol == Unwrap(from_str(parts[2]))
      name == parts[3]
      delimiter == nth(parts[4], 1)
      probe == join(SubSeq(parts, 4, Len(parts)), << " " >>)
  IN
  IF ~IsSome(delimiter) THEN Returned(None)
  ELSE IF ~IsSome(find(probe, Unwrap(delimiter))) THEN Returned(None)
  ELSE
  LET probe_start_index == Unwrap(find(probe, Unwrap(delimiter))) + 1
      remainder == SliceFrom(probe, probe_start_index)
  IN
  IF ~IsSome(find(remainder, Unwrap(delimiter))) THEN Returned(None)
  ELSE
  LET probe_end_index == Unwrap(find(remainder, Unwrap(delimiter)))
      body == unescape(Slice(remainder, 0, probe_end_index))
      no_payload ==
        /\ Len(remainder) > probe_end_index + 1
        /\ split_whitespace(SliceFrom(remainder, probe_end_index + 1))[1]
             = StrNoPayload
  IN
  IF ~IsSome(body) THEN Panicked
  ELSE Returned(Some([ transport_protocol |-> transport_protocol,
                       name |-> name,
                       data |-> as_bytes(Unwrap(body)),
                       no_payload |-> no_payload ]))

\* Every response a regex is tried on in the model.
AllResponses == {RespEof, RespSsh, RespTlsAlert, RespHttp}

\* A..Z to a..z when the regex is caseless.
Fold(bytes, caseless) ==
  [ i \in DOMAIN bytes |->
      IF caseless /\ bytes[i] \in 65..90 THEN bytes[i] + 32 ELSE bytes[i] ]

\* RegexBuilder::new().caseless(..).dotall(..).build(pattern) for the patterns
\* of the model's texts: an optional ^ and then literal characters. The regex
\* is held as the set of responses it hits. An unclosed ( does not compile
\* (None).
RegexBuild(pattern, caseless, dotall) ==
  IF contains(pattern, "(") /\ ~contains(pattern, ")") THEN None
  ELSE
  LET anchored == pattern # <<>> /\ pattern[1] = "^"
      literal == Fold(as_bytes(chars(IF anchored THEN Tail(pattern) ELSE pattern)),
                      caseless)
      offsets(r) == IF anchored THEN {0} ELSE 0..Len(r)
  IN  Some({ r \in AllResponses :
               \E o \in offsets(r) :
                 /\ o + Len(literal) <= Len(r)
                 /\ Slice(Fold(r, caseless), o, o + Len(literal)) = literal })

\* parse_match_line
parse_match_line(line) ==
  LET parts == split_whitespace(line)
  IN
  IF Len(parts) < 3 \/ ( parts[1] # StrMatch /\ parts[1] # StrSoftmatch )
  THEN Returned(None)
  ELSE
  LET service == parts[2]
      delimiter == nth(parts[3], 1)
      pattern_version_info == join(SubSeq(parts, 3, Len(parts)), << " " >>)
  IN
  IF ~IsSome(delimiter) THEN Returned(None)
  ELSE IF ~IsSome(find(pattern_version_info, Unwrap(delimiter)))
  THEN Returned(None)
  ELSE
  LET pattern_start_index ==
        Unwrap(find(pattern_version_info, Unwrap(delimiter))) + 1
      remainder == SliceFrom(pattern_version_info, pattern_start_index)
  IN
  IF ~IsSome(find(remainder, Unwrap(delimiter))) THEN Returned(None)
  ELSE
  LET pattern_end_index == Unwrap(find(remainder, Unwrap(delimiter)))
      pattern == Slice(remainder, 0, pattern_end_index)
      more == Len(remainder) > pattern_end_index + 1
      pattern_options ==
        IF more /\ ~is_whitespace(Unwrap(nth(remainder, pattern_end_index + 1)))
        THEN split_whitespace(SliceFrom(remainder, pattern_end_index + 1))[1]
        ELSE <<>>
      version_info ==
        IF more
        THEN trim(SliceFrom(remainder,
                            pattern_end_index + Len(pattern_options) + 1))
        ELSE <<>>
      re == RegexBuild(pattern, contains(pattern_options, "i"),
                       contains(pattern_options, "s"))
  IN
  IF ~IsSome(re) THEN Panicked
  ELSE Returned(Some([ service |-> service,
                       pattern |-> pattern,
                       re |-> Unwrap(re),
                       pattern_options |-> pattern_options,
                       version_info |-> version_info ]))

\* ---------------------------------------------------------- catalog reader

\* str::split(sep): the pieces between the occurrences of sep.
RECURSIVE split(_, _)
split(s, sep) ==
  IF ~IsSome(find(s, sep)) THEN << s >>
  ELSE << Slice(s, 0, Unwrap(find(s, sep))) >>
       \o split(SliceFrom(s, Unwrap(find(s, sep)) + 1), sep)

\* The value of a run of decimal digits (0 for the empty run).
RECURSIVE DigitsValue(_)
DigitsValue(s) ==
  IF s = <<>> THEN 0
  ELSE 10 * DigitsValue(SubSeq(s, 1, Len(s) - 1)) + ( Ascii[s[Len(s)]] - 48 )

\* str::parse::<usize>(): an optional + and then one or more digits; None
\* for an Err. No number in the model's texts comes near usize::MAX, so the
\* overflow Err is left out.
parse_usize(s) ==
  LET digits == IF s # <<>> /\ Head(s) = "+" THEN Tail(s) ELSE s
  IN  IF digits = <<>> \/ \E i \in DOMAIN digits : Ascii[digits[i]] \notin 48..57
      THEN None
      ELSE Some(DigitsValue(digits))

U16Max == 65535

\* str::parse::<u16>(): as for usize, and an Err above u16::MAX.
parse_u16(s) ==
  IF IsSome(parse_usize(s)) /\ Unwrap(parse_usize(s)) > U16Max THEN None
  ELSE parse_usize(s)

\* start..=end as a Vec
RangeInclusive(start, end) ==
  [ i \in 1..( end - start + 1 ) |-> start + i - 1 ]

\* parse_ports: the loop over ports.split(","), from element k on.
RECURSIVE ParsePortsFrom(_, _, _)
ParsePortsFrom(elements, k, parsed) ==
  IF k > Len(elements) THEN Some(parsed)
  ELSE
  LET port == elements[k]
      parts == split(port, "-")
  IN  IF contains(port, "-")
      THEN IF Len(parts) < 2 THEN None
           ELSE IF ~IsSome(parse_u16(parts[1])) THEN None
           ELSE IF ~IsSome(parse_u16(parts[2])) THEN None
           ELSE ParsePortsFrom(elements, k + 1,
                  parsed \o RangeInclusive(Unwrap(parse_u16(parts[1])),
                                           Unwrap(parse_u16(parts[2]))))
      ELSE IF ~IsSome(parse_u16(port)) THEN None
           ELSE ParsePortsFrom(elements, k + 1,
                  Append(parsed, Unwrap(parse_u16(port))))

parse_ports(ports) == ParsePortsFrom(split(ports, ","), 1, <<>>)

\* A push that puts the element first.
pushFront(vec, x) == << x >> \o vec

\* Vec::push
push(vec, x) == Append(vec, x)

\* ProbeDirectives::new
NewDirectives ==
  [ matches |-> None, soft_matches |-> None, ports |-> None,
    ssl_ports |-> None, total_wait_ms |-> None, tcp_wrapped_ms |-> None,
    rarity |-> None, fallback |-> None ]

\* ServiceProbes::new
NewServiceProbes == [ tcp_probes |-> <<>>, udp_probes |-> <<>> ]

\* line.starts_with('#') || line.trim().is_empty()
IsCommentOrBlank(line) == StartsWith(line, << "#" >>) \/ trim(line) = <<>>

\* The element of a set of one element. Only({ e : x \in {v} }) is e with x
\* standing for the value of v, worked out once.
Only(S) == CHOOSE x \in S : TRUE

\* The file is the sequence of its lines; at is the number of the line the
\* Peekable holds peeked (Len(file) + 1 when peek() gave None). Every line
\* before at, and the peeked line itself, has been taken from the underlying
\* Lines iterator.

\* read_matches: the loop, with the line at peeked.
RECURSIVE read_matches(_, _, _, _)
read_matches(file, at, matches, soft_matches) ==
  IF at > Len(file) \/ StartsWith(file[at], StrProbe)
  THEN Returned([ matches |-> matches, soft_matches |-> soft_matches,
                  at |-> at ])
  ELSE IF IsCommentOrBlank(file[at])
  THEN read_matches(file, at + 1, matches, soft_matches)
  ELSE IF StartsWith(file[at], StrMatch)
  THEN Only({ IF nmap_match.kind = "panicked" \/ ~IsSome(nmap_match.value)
              THEN Panicked
              ELSE read_matches(file, at + 1,
                     push(matches, Unwrap(nmap_match.value)), soft_matches) :
              nmap_match \in { parse_match_line(file[at]) } })
  ELSE IF StartsWith(file[at], StrSoftmatch)
  THEN Only({ IF nmap_match.kind = "panicked" \/ ~IsSome(nmap_match.value)
              THEN Panicked
              ELSE read_matches(file, at + 1, matches,
                     push(soft_matches, Unwrap(nmap_match.value))) :
              nmap_match \in { parse_match_line(file[at]) } })
  ELSE read_matches(file, at + 1, matches, soft_matches)

\* One directive line of at least two tokens: the directives after it, or
\* None when a value does not parse (the expect / unwrap_or_else panics).
Directive(directives, parts) ==
  Only({ IF parts[1] = <<"f", "a", "l", "l", "b", "a", "c", "k">>
         THEN Some([ directives EXCEPT
                       !.fallback = Some(split(parts[2], ",")) ])
         ELSE IF parts[1] = <<"p", "o", "r", "t", "s">>
         THEN IF ~IsSome(ports) THEN None
              ELSE Some([ directives EXCEPT !.ports = ports ])
         ELSE IF parts[1] = <<"s", "s", "l", "p", "o", "r", "t", "s">>
         THEN IF ~IsSome(ports) THEN None
              ELSE Some([ directives EXCEPT !.ssl_ports = ports ])
         ELSE IF parts[1] = <<"t", "o", "t", "a", "l", "w", "a", "i", "t", "m", "s">>
         THEN IF ~IsSome(number) THEN None
              ELSE Some([ directives EXCEPT !.total_wait_ms = number ])
         ELSE IF parts[1] = <<"t", "c", "p", "w", "r", "a", "p", "p", "e", "d", "m", "s">>
         THEN IF ~IsSome(number) THEN None
              ELSE Some([ directives EXCEPT !.tcp_wrapped_ms = number ])
         ELSE IF parts[1] = <<"r", "a", "r", "i", "t", "y">>
         THEN IF ~IsSome(number) THEN None
              ELSE Some([ directives EXCEPT !.rarity = number ])
         ELSE Some(directives) :
         ports \in { parse_ports(parts[2]) },
         number \in { parse_usize(parts[2]) } })

\* A loop that reads on past a Probe line.
DirectivesEndNever(line) == FALSE

\* read_probe_directives: line.starts_with("Probe") ends the loop.
DirectivesEnd(line) == StartsWith(line, StrProbe)

\* read_probe_directives: the loop, with the line at peeked. The Peekable is
\* local to the function and wraps the caller's iterator by reference: a line
\* it holds peeked when the function returns has left the caller's iterator
\* and is dropped with the Peekable. next is the line the caller's
\* lines.next() gives afterwards.
RECURSIVE read_probe_directives(_, _, _)
read_probe_directives(file, at, directives) ==
  IF at > Len(file)
  THEN Returned([ directives |-> directives, next |-> at ])
  ELSE IF DirectivesEnd(file[at])
  THEN Returned([ directives |-> directives, next |-> at + 1 ])
  ELSE IF IsCommentOrBlank(file[at])
  THEN read_probe_directives(file, at + 1, directives)
  ELSE IF StartsWith(file[at], StrMatch) \/ StartsWith(file[at], StrSoftmatch)
  THEN Only({ IF read.kind = "panicked" THEN Panicked
              ELSE Returned([ directives |->
                                [ directives EXCEPT
                                    !.matches = Some(read.value.matches),
                                    !.soft_matches =
                                      Some(read.value.soft_matches) ],
                              next |-> read.value.at + 1 ]) :
              read \in { read_matches(file, at, <<>>, <<>>) } })
  ELSE
  Only({ IF Len(parts) < 2
         THEN Returned([ directives |-> directives, next |-> at + 1 ])
         ELSE Only({ IF ~IsSome(after) THEN Panicked
                     ELSE read_probe_directives(file, at + 1, Unwrap(after)) :
                     after \in { Directive(directives, parts) } }) :
         parts \in { split_whitespace(file[at]) } })

\* read_service_probes_file: the while loop, with lines.next() giving the
\* line numbered at.
RECURSIVE ReadLinesFrom(_, _, _)
ReadLinesFrom(file, at, service_probes) ==
  IF at > Len(file) THEN Returned(service_probes)
  ELSE IF IsCommentOrBlank(file[at])
  THEN ReadLinesFrom(file, at + 1, service_probes)
  ELSE IF StartsWith(file[at], StrProbe)
  THEN
    Only({ IF probe.kind = "panicked" \/ ~IsSome(probe.value) THEN Panicked
           ELSE
           Only({ IF read.kind = "panicked" THEN Panicked
                  ELSE
                  LET service_probe == [ probe |-> Unwrap(probe.value),
                                         directives |-> read.value.directives ]
                  IN  ReadLinesFrom(file, read.value.next,
                        IF service_probe.probe.transport_protocol = "TCP"
                        THEN [ service_probes EXCEPT
                                 !.tcp_probes = push(@, service_probe) ]
                        ELSE [ service_probes EXCEPT
                                 !.udp_probes = push(@, service_probe) ]) :
                  read \in { read_probe_directives(file, at + 1,
                                                   NewDirectives) } }) :
           probe \in { parse_probe_line(file[at]) } })
  ELSE ReadLinesFrom(file, at + 1, service_probes)

read_service_probes_file(file) == ReadLinesFrom(file, 1, NewServiceProbes)

\* Lines of a probes file: three Probe lines, two match lines and a softmatch
\* line, a comment, a blank line and a rarity directive.
LineProbeA == <<"P", "r", "o", "b", "e", " ", "T", "C", "P", " ", "A", " ", "q", "|", "x", "|">>

LineProbeB == <<"P", "r", "o", "b", "e", " ", "U", "D", "P", " ", "B", " ", "q", "|", "y", "|", " ", "n", "o", "-", "p", "a", "y", "l", "o", "a", "d">>

LineProbeC == <<"P", "r", "o", "b", "e", " ", "T", "C", "P", " ", "C", " ", "q", "|", "|">>

LineMatchSsh == <<"m", "a", "t", "c", "h", " ", "s", "s", "h", " ", "m", "|", "^", "S", "|">>

LineMatchHttp == <<"m", "a", "t", "c", "h", " ", "h", "t", "t", "p", " ", "m", "|", "^", "H", "|", " ", "p", "/", "x", "/">>

LineSoftmatch == <<"s", "o", "f", "t", "m", "a", "t", "c", "h", " ", "s", "s", "l", " ", "m", "|", "t", "|", "i">>

LineComment == <<"#", " ", "c">>

LineBlank == <<>>

LineRarity == <<"r", "a", "r", "i", "t", "y", " ", "1">>

LinePool ==
  { LineProbeA, LineProbeB, LineProbeC, LineMatchSsh, LineMatchHttp,
    LineSoftmatch, LineComment, LineBlank, LineRarity }

InitCatalog ==
  /\ NoScan
  /\ arg \in { Some([ fn |-> "read_service_probes_file", file |-> f ]) :
                f \in SeqUpTo(LinePool, MaxLines) }
  /\ ret = None

\* read_service_probes_file(f)
CallReadServiceProbesFile ==
  /\ IsSome(arg)
  /\ Unwrap(arg).fn = "read_service_probes_file"
  /\ ret = None
  /\ ret' = Some(read_service_probes_file(Unwrap(arg).file))
  /\ UNCHANGED << writer, clock, arg, probes, config, targets, inflight, sending, chan,
                  written, pipeline, sent, pulled >>

NextCatalog == CallReadServiceProbesFile

SpecCatalog == InitCatalog /\ [][NextCatalog]_vars

\* The results a scan can hand to the shaper: a DetectionInner holds the
\* base64 of a response and the rule that hit.
DetectionInners ==
  { [ response |-> Encode(r), service_match |-> m ] :
      r \in {RespSsh, RespTlsAlert, RespHttp}, m \in RulePool }

RadarErrors ==
  {ErrIo, ErrElapsed, ErrTls} \cup { NoDetection(r) : r \in AllResponses }

ScanResults ==
  { Ok(DetectionWithoutTls(d)) : d \in DetectionInners }
    \cup { Ok(DetectionWithTls(d, Ok(w))) :
             d \in DetectionInners, w \in DetectionInners }
    \cup { Ok(DetectionWithTls(d, Err(e))) :
             d \in DetectionInners, e \in RadarErrors }
    \cup { Err(e) : e \in RadarErrors }

InitShape ==
  /\ NoScan
  /\ arg \in { Some([ fn |-> "from", target |-> t, r |-> r ]) :
                t \in {1}, r \in ScanResults }
  /\ ret = None

\* RadarOutput::from((target, r))
CallFrom ==
  /\ IsSome(arg)
  /\ Unwrap(arg).fn = "from"
  /\ ret = None
  /\ ret' = Some(Returned(ToRadarOutput(Unwrap(arg).target, Unwrap(arg).r)))
  /\ UNCHANGED << writer, clock, arg, probes, config, targets, inflight, sending, chan,
                  written, pipeline, sent, pulled >>

NextShape == CallFrom

SpecShape == InitShape /\ [][NextShape]_vars

\* Probe lines, put together from their parts. A line of the documented form
\* is  Probe <transport> <name> q<D><body><D><tail>; the other lines have a
\* different first token, an unknown transport, or a payload token that is
\* missing, too short or not closed.
ProbeTransports == { <<"T", "C", "P">>, <<"U", "D", "P">> }

ProbeNames == { <<"N", "U", "L", "L">>, <<"F", "o", "o">> }

ProbeDelimiters == { "|", "/" }

ProbeBodies ==
  { <<>>,
    <<"x">>,
    <<"a", " ", "b">>,
    <<"a", " ", " ", "b">>,
    <<"a", "\t", "b">>,
    <<"\\", "r", "\\", "n">>,
    <<"\\", "x", "0", "2">> }

ProbeTails ==
  { <<>>,
    <<" ", "n", "o", "-", "p", "a", "y", "l", "o", "a", "d">>,
    <<"n", "o", "-", "p", "a", "y", "l", "o", "a", "d">>,
    <<" ", "r", "a", "r", "i", "t", "y">> }

ProbeSeparators == { << " " >>, << "\t" >> }

ProbeLineOf(first, sep, transport, name, payload) ==
  first \o sep \o transport \o sep \o name
    \o ( IF payload = <<>> THEN <<>> ELSE sep \o payload )

FormedProbeLines ==
  { [ fn |-> "parse_probe_line", formed |-> TRUE,
      line |-> ProbeLineOf(StrProbe, sep, transport, name,
                           << "q", d >> \o body \o << d >> \o tail),
      transport |-> transport, name |-> name, body |-> body, tail |-> tail ] :
      sep \in ProbeSeparators, transport \in ProbeTransports,
      name \in ProbeNames, d \in ProbeDelimiters, body \in ProbeBodies,
      tail \in ProbeTails }

OtherProbeLines ==
  { [ fn |-> "parse_probe_line", formed |-> FALSE,
      line |-> ProbeLineOf(first, sep, transport, name, payload),
      transport |-> transport, name |-> name, body |-> <<>>, tail |-> <<>> ] :
      sep \in ProbeSeparators,
      first \in { StrProbe, <<"P", "r", "o", "b">>, StrMatch },
      transport \in ProbeTransports \cup { <<"t", "c", "p">> },
      name \in ProbeNames,
      payload \in { <<>>,
              <<"q">>,
              <<"q", "|">>,
              <<"q", "|", "x">>,
              <<"q", "|", "x", " ", "y">>,
              <<"q", "|", "x", "|">> } }

InitProbeLine ==
  /\ NoScan
  /\ arg \in { Some(a) : a \in FormedProbeLines \cup OtherProbeLines }
  /\ ret = None

\* parse_probe_line(&line)
CallParseProbeLine ==
  /\ IsSome(arg)
  /\ Unwrap(arg).fn = "parse_probe_line"
  /\ ret = None
  /\ ret' = Some(parse_probe_line(Unwrap(arg).line))
  /\ UNCHANGED << writer, clock, arg, probes, config, targets, inflight, sending, chan,
                  written, pipeline, sent, pulled >>

NextProbeLine == CallParseProbeLine

SpecProbeLine == InitProbeLine /\ [][NextProbeLine]_vars

\* Match lines of the documented form, put together from their parts:
\* <keyword> <service> m<D><pattern><D><options><rest>.
MatchServices == { <<"s", "s", "h">>, <<"h", "t", "t", "p">> }

MatchPatterns ==
  { <<"^", "S">>,
    <<"^", "h">>,
    <<>>,
    <<"a", " ", "b">>,
    <<"a", " ", " ", "b">> }

MatchOptions == { <<>>, << "i" >>, << "s", "i" >> }

MatchRests ==
  { <<>>,
    <<" ", "p", "/", "x", "/">>,
    <<" ", "p", "/", "x", " ", "y", "/", " ", "v", "/", "1", "/">>,
    <<" ", "p", "/", "x", " ", " ", "y", "/">> }

MatchLines ==
  { [ fn |-> "parse_match_line",
      line |-> keyword \o << " " >> \o service \o << " ", "m", d >>
                 \o pattern \o << d >> \o options \o rest,
      service |-> service, pattern |-> pattern, options |-> options,
      rest |-> rest ] :
      keyword \in { StrMatch, StrSoftmatch }, service \in MatchServices,
      d \in { "|", "=" }, pattern \in MatchPatterns, options \in MatchOptions,
      rest \in MatchRests }

InitMatchLine ==
  /\ NoScan
  /\ arg \in { Some(a) : a \in MatchLines }
  /\ ret = None

\* parse_match_line(&line)
CallParseMatchLine ==
  /\ IsSome(arg)
  /\ Unwrap(arg).fn = "parse_match_line"
  /\ ret = None
  /\ ret' = Some(parse_match_line(Unwrap(arg).line))
  /\ UNCHANGED << writer, clock, arg, probes, config, targets, inflight, sending, chan,
                  written, pipeline, sent, pulled >>

NextMatchLine == CallParseMatchLine

SpecMatchLine == InitMatchLine /\ [][NextMatchLine]_vars

\* ------------------------------------------------ parse/unescape.rs

\* The longest text given to a function called on its own.
MaxChars == 5

\* char::as_ascii followed by to_u8: the byte of an ASCII character, None for
\* a character outside ASCII.
as_ascii(c) == IF c \in DOMAIN Ascii THEN Some(Ascii[c]) ELSE None

\* u8::from_str_radix(&byte, 16) on the two characters the loop collected: an
\* optional + sign, then at least one hexadecimal digit and nothing else.
from_str_radix(byte) ==
  LET digit(c) == IF c \in DOMAIN Ascii THEN HexVal(c) ELSE -1
  IN  IF byte[1] = "+"
      THEN IF digit(byte[2]) < 0 THEN None ELSE Some(digit(byte[2]))
      ELSE IF digit(byte[1]) < 0 \/ digit(byte[2]) < 0 THEN None
      ELSE Some(16 * digit(byte[1]) + digit(byte[2]))

\* Every escape letter taken for itself.
EscapeByteLiteral(c) == as_ascii(c)

\* The match on the character after a backslash, but for the x arm: the
\* byte before .unwrap().
EscapeByte(c) ==
  CASE c = "0" -> Some(0)
    [] c = "n" -> Some(10)
    [] c = "r" -> Some(13)
    [] c = "t" -> Some(9)
    [] OTHER -> as_ascii(c)

\* The while loop of unescape: chars holds the characters not yet popped, the
\* next one first; every unwrap of a None panics.
RECURSIVE UnescapeLoop(_, _)
UnescapeLoop(chars_left, unescaped) ==
  IF chars_left = <<>> THEN Returned(unescaped)
  ELSE IF Head(chars_left) # "\\"
  THEN IF IsSome(as_ascii(Head(chars_left)))
       THEN UnescapeLoop(Tail(chars_left),
                         push(unescaped, Unwrap(as_ascii(Head(chars_left)))))
       ELSE Panicked
  ELSE IF Len(chars_left) < 2 THEN Panicked
  ELSE IF chars_left[2] = "x"
  THEN IF Len(chars_left) < 4 THEN Panicked
       ELSE Only({ IF IsSome(b)
                   THEN UnescapeLoop(SliceFrom(chars_left, 4),
                                     push(unescaped, Unwrap(b)))
                   ELSE Panicked :
                   b \in { from_str_radix(Slice(chars_left, 2, 4)) } })
  ELSE Only({ IF IsSome(b)
              THEN UnescapeLoop(SliceFrom(chars_left, 2),
                                push(unescaped, Unwrap(b)))
              ELSE Panicked :
              b \in { EscapeByte(chars_left[2]) } })

\* parse::unescape::unescape(s)
unescape_bytes(s) == UnescapeLoop(s, <<>>)

\* The characters of the texts unescape is called on: the backslash, x, two
\* hexadecimal digits of which one is a letter, an escape letter and a
\* character outside ASCII; and, for the shorter texts, the other escape
\* letters, the quotes, the slash and the sign.
CoreChars == { "\\", "x", "4", "a", "n", "0", "é" }

EscapeChars == CoreChars \cup { "r", "t", "'", "\"", "/", "+" }

UnescapeTexts ==
  SeqUpTo(CoreChars, MaxChars) \cup SeqUpTo(EscapeChars, MaxChars - 2)

InitUnescape ==
  /\ NoScan
  /\ arg \in { Some([ fn |-> "unescape", s |-> s ]) : s \in UnescapeTexts }
  /\ ret = None

\* unescape(s)
CallUnescape ==
  /\ IsSome(arg)
  /\ Unwrap(arg).fn = "unescape"
  /\ ret = None
  /\ ret' = Some(unescape_bytes(Unwrap(arg).s))
  /\ UNCHANGED << writer, clock, arg, probes, config, targets, inflight, sending, chan,
                  written, pipeline, sent, pulled >>

NextUnescape == CallUnescape

SpecUnescape == InitUnescape /\ [][NextUnescape]_vars

\* ------------------------------------------------------------- parse_ports

StrPorts == <<"p", "o", "r", "t", "s">>

\* The characters of a ports expression: digits, the two separators, the sign
\* str::parse accepts, and a letter.
PortChars == { "1", "2", "3", ",", "-", "+", "a" }

\* Ports expressions: every text over PortChars, and the numbers around
\* u16::MAX.
PortTexts ==
  SeqUpTo(PortChars, MaxChars)
    \cup { <<"6", "5", "5", "3", "5">>, <<"6", "5", "5", "3", "6">>,
           <<"0", "-", "0">> }

InitPorts ==
  /\ NoScan
  /\ arg \in { Some([ fn |-> "parse_ports", ports |-> s ]) : s \in PortTexts }
  /\ ret = None

\* parse_ports(parts[1]) as the ports arm of read_probe_directives calls it:
\* the Option it returns, and the directives after the arm (None when the
\* unwrap_or_else panics).
CallParsePorts ==
  /\ IsSome(arg)
  /\ Unwrap(arg).fn = "parse_ports"
  /\ ret = None
  /\ ret' = Some(Returned([ parsed |-> parse_ports(Unwrap(arg).ports),
                            after |-> Directive(NewDirectives,
                                        << StrPorts, Unwrap(arg).ports >>) ]))
  /\ UNCHANGED << writer, clock, arg, probes, config, targets, inflight, sending, chan,
                  written, pipeline, sent, pulled >>

NextPorts == CallParsePorts

SpecPorts == InitPorts /\ [][NextPorts]_vars

\* ------------------------------------------------------------ target intake

\* The longest input of CSV rows.
MaxRows == 3

\* A row of standard input is the sequence of its fields, each a text. The
\* reader is built with has_headers(false) and is not flexible: the first
\* record read fixes the number of fields, and a later record with another
\* number of fields is an UnequalLengths error.

\* Target, deserialized from the fields of a record in order: ip: String,
\* domain: Option<String> (an empty field is None), port: u16.
DeserializeTarget(record) ==
  IF Len(record) < 3 THEN Err("invalid length")
  ELSE IF ~IsSome(parse_u16(record[3])) THEN Err("invalid digit")
  ELSE Ok([ ip |-> record[1],
            domain |-> IF record[2] = <<>> THEN None ELSE Some(record[2]),
            port |-> Unwrap(parse_u16(record[3])) ])

\* rdr.deserialize::<Target>(): one item per row, from row k on.
RECURSIVE deserialize(_, _, _)
deserialize(rows, k, first_field_count) ==
  IF k > Len(rows) THEN <<>>
  ELSE IF IsSome(first_field_count) /\ Len(rows[k]) # Unwrap(first_field_count)
  THEN << Err("UnequalLengths") >> \o deserialize(rows, k + 1, first_field_count)
  ELSE << DeserializeTarget(rows[k]) >>
       \o deserialize(rows, k + 1, Some(Len(rows[k])))

\* records.filter_map(..): Ok(target) is kept, an Err is logged and dropped.
RECURSIVE filter_map(_)
filter_map(records) ==
  IF records = <<>> THEN <<>>
  ELSE ( IF Head(records).ok THEN << Head(records).v >> ELSE <<>> )
       \o filter_map(Tail(records))

\* Rows: two well-formed ones (without and with a domain), one whose port is
\* not a number, and one of two fields.
RowPlain == << <<"a">>, <<>>, <<"8", "0">> >>

RowDomain == << <<"b">>, <<"d">>, <<"4", "4", "3">> >>

RowBadPort == << <<"c">>, <<>>, <<"x">> >>

RowShort == << <<"e">>, <<"8", "0">> >>

RowPool == { RowPlain, RowDomain, RowBadPort, RowShort }

\* run: the targets stream start_scan is given is the filtered records of
\* the rows on standard input; one scan at a time.
InitIntake ==
  /\ probes = CatSingle
  /\ config \in [ max_concurrent_scans : {1} ]
  /\ \E rows \in SeqUpTo(RowPool, MaxRows) :
       /\ arg = Some([ fn |-> "run", rows |-> rows ])
       /\ targets = filter_map(deserialize(rows, 1, None))
  /\ ret = None
  /\ Idle

NextIntake == Next

SpecIntake == InitIntake /\ [][NextIntake]_vars

\* ---------------------------------------------- run_service_probe_and_match

\* More bytes than the buffer holds.
DataLong == [ i \in 1..( BufLen + 1 ) |-> 83 ]

\* A probe whose rule hits a full buffer of those bytes.
ProbeLong ==
  ServiceProbe("Long", <<76>>,
    Some(<< Match(SvcSsh, "^S+$", { SubSeq(DataLong, 1, BufLen) }) >>), None)

\* What the earlier probes of the pass may have left in the buffer.
BufLeft == { <<>>, RespSsh, RespTlsAlert, RespHttp, <<72, 84, 84, 80>> }

InitRead ==
  /\ NoScan
  /\ arg \in { Some([ fn |-> "run_service_probe_and_match",
                       buf |-> b, data |-> d, service_probe |-> p ]) :
                b \in BufLeft,
                d \in AllResponses \cup { DataLong },
                p \in { CatNullFirst[k] : k \in DOMAIN CatNullFirst }
                       \cup { CatThree[k] : k \in DOMAIN CatThree }
                       \cup { ProbeLong } }
  /\ ret = None

\* run_service_probe_and_match(&mut stream, &mut buf, &probe)
CallRunServiceProbeAndMatch ==
  /\ IsSome(arg)
  /\ Unwrap(arg).fn = "run_service_probe_and_match"
  /\ ret = None
  /\ ret' = Some(Returned(run_service_probe_and_match(
                   Unwrap(arg).buf, Unwrap(arg).data,
                   Unwrap(arg).service_probe)))
  /\ UNCHANGED << writer, clock, arg, probes, config, targets, inflight,
                  sending, chan, written, pipeline, sent, pulled >>

NextRead == CallRunServiceProbeAndMatch

SpecRead == InitRead /\ [][NextRead]_vars

\* ----------------------------------------------------------------- claims

Slots == { inflight[i] : i \in DOMAIN inflight }

Range(seq) == { seq[i] : i \in DOMAIN seq }

Count(seq, x) == Cardinality({ i \in DOMAIN seq : seq[i] = x })

\* The attempts of one pass of a scan, in order.
PassLog(s, tls) == SelectSeq(s.log, LAMBDA e : e.tls = tls)

\* A scan that is still being driven, or has finished and waits to be yielded.
Alive(s) == s.st \notin {"panicked", "dropped"}

Running(s) == s.st \in {"connect", "handshake", "write", "read"}

\* An attempt that ended without a match and without an error of the pass.
Fruitless(e) ==
  \/ e.ev = "miss"
  \/ e.ev = "read_timeout" /\ probes[e.k].probe.name = "NULL"

\* The field of the record that a pass reports its error in.
ErrorField(s, tls) == IF tls THEN Unwrap(s.out).tls_error ELSE Unwrap(s.out).error

ResponseField(s, tls) ==
  IF tls THEN Unwrap(s.out).tls_response ELSE Unwrap(s.out).response

MatchField(s, tls) ==
  IF tls THEN Unwrap(s.out).tls_service_match ELSE Unwrap(s.out).service_match

\* The rules of a probe, hard and soft.
Rules(service_probe) ==
  Range(UnwrapOrEmpty(service_probe.directives.matches)) \cup
  Range(UnwrapOrEmpty(service_probe.directives.soft_matches))

\* C1: every target pulled from the stream is accounted for exactly once at
\* all times (its scan is in flight, or its record is being sent, or its
\* record has been sent once), and once start_scan has ended exactly one
\* record has been sent for each target pulled, whatever the scans' outcomes.
C1_OneRecordPerTarget ==
  \A t \in Range(pulled) :
    /\ Count(sent, t)
         + Cardinality({ i \in DOMAIN inflight :
                           inflight[i].t = t /\ Alive(inflight[i]) })
         + (IF IsSome(sending) /\ Unwrap(sending).target = t THEN 1 ELSE 0) = 1
    /\ pipeline # "running" => Count(sent, t) = 1

\* C2: no outcome of a scan aborts the pipeline: start_scan never panics, no
\* scan is abandoned, and a scan that failed has finished with the failure in
\* the error or tls_error field of its own target's record.
C2_FailureNeverAborts ==
  /\ pipeline # "panicked"
  /\ \A s \in Slots :
       /\ Alive(s)
       /\ ( s.st = "done" /\ s.log # <<>> /\ s.log[Len(s.log)].ev # "match" ) =>
            /\ Unwrap(s.out).target = s.t
            /\ IsSome(ErrorField(s, s.log[Len(s.log)].tls))

\* C3: the records are sent in the order in which their targets were pulled.
C3_InputOrder ==
  /\ Len(sent) <= Len(pulled)
  /\ sent = SubSeq(pulled, 1, Len(sent))

\* A later scan has finished while an earlier one is still running, records
\* have been sent, and the later scan's record is held back.
C3_Overtaken ==
  /\ pipeline = "running"
  /\ sent # <<>>
  /\ \E i, j \in DOMAIN inflight :
       /\ i < j
       /\ Running(inflight[i])
       /\ inflight[j].st = "done"
       /\ inflight[j].t \notin Range(sent)

OpenSockets == Cardinality({ i \in DOMAIN inflight : inflight[i].sock })

\* C4: at most max_concurrent_scans scans are in flight and at most that many
\* sockets are open.
C4_ConcurrencyBound ==
  /\ Len(inflight) <= config.max_concurrent_scans
  /\ OpenSockets <= config.max_concurrent_scans

\* The limit is reached with every socket open while targets are waiting.
C4_AtTheLimit ==
  /\ Len(inflight) = config.max_concurrent_scans
  /\ Len(inflight) > 1
  /\ OpenSockets = Len(inflight)
  /\ targets # <<>>

\* The last response read in a pass, if any.
LastResponse(log) ==
  LET misses == SelectSeq(log, LAMBDA e : e.ev = "miss")
  IN  IF misses = <<>> THEN None ELSE Some(misses[Len(misses)].r)

\* A pass has attempted every probe and none matched.
Exhausted(s, tls) ==
  LET log == PassLog(s, tls)
  IN  /\ Len(log) = Len(probes)
      /\ log # <<>>
      /\ \A i \in DOMAIN log : Fruitless(log[i])

\* C5: a pass that attempted every probe without a match has returned
\* NoDetection with the last response read: the scan has finished and the
\* record reports "No Detection" and the base64 of that response.
C5_ExhaustedPassIsNoDetection ==
  \A s \in Slots : \A tls \in BOOLEAN :
    Exhausted(s, tls) =>
      /\ s.st = "done"
      /\ ErrorField(s, tls) = Some("No Detection")
      /\ LET last == LastResponse(PassLog(s, tls))
         IN  IsSome(last) => ResponseField(s, tls) = Some(Encode(Unwrap(last)))

\* C6: a connect failure after an earlier probe of the pass read a response
\* (of at least one byte) that matched nothing ends the pass with NoDetection
\* of that response; the I/O error is reported when no earlier probe read a
\* response.
C6_ConnectFailureKeepsResponse ==
  \A s \in Slots : \A tls \in BOOLEAN :
    LET log == PassLog(s, tls)
    IN  ( log # <<>> /\ log[Len(log)].ev = "connect_failed" ) =>
          /\ s.st = "done"
          /\ LET last == LastResponse(log)
             IN  /\ ( IsSome(last) /\ Unwrap(last) # RespEof ) =>
                      /\ ErrorField(s, tls) = Some("No Detection")
                      /\ ResponseField(s, tls) = Some(Encode(Unwrap(last)))
                 /\ ~IsSome(last) =>
                      ErrorField(s, tls) = Some("connection refused")

\* C7: within a pass the probes are attempted in the order of tcp_probes, one
\* after the other: attempt i is of probe i, the attempt under way is of the
\* probe after the last one ended, every attempt before the last ended
\* without a match and without an error, and a pass that ended with a match
\* returns the detection of that probe and response.
C7_CatalogOrder ==
  \A s \in Slots : \A tls \in BOOLEAN :
    LET log == PassLog(s, tls)
    IN  /\ \A i \in DOMAIN log : log[i].k = i
        /\ \A i \in DOMAIN log : i < Len(log) => Fruitless(log[i])
        /\ ( Running(s) /\ s.tls = tls ) => s.k = Len(log) + 1
        /\ ( log # <<>> /\ log[Len(log)].ev = "match" ) =>
             LET e == log[Len(log)]
                 d == IF tls \/ ~s.tls
                      THEN [ response |-> ResponseField(s, tls),
                             service_match |-> MatchField(s, tls) ]
                      ELSE [ response |-> Some(Unwrap(s.detection).response),
                             service_match |->
                               Some(Unwrap(s.detection).service_match) ]
             IN  /\ tls \/ ~s.tls => s.st = "done"
                 /\ d.response = Some(Encode(e.r))
                 /\ IsSome(d.service_match)
                 /\ Unwrap(d.service_match) \in Rules(probes[e.k])
                 /\ e.r \in Unwrap(d.service_match).re

\* A scan matched on its third probe after two fruitless attempts.
C7_MatchOnThirdProbe ==
  \E s \in Slots :
    /\ s.st = "done"
    /\ Len(s.log) = 3
    /\ s.log[3].ev = "match"
    /\ s.log[1].ev = "miss"

\* C8: a read timeout on a probe not named NULL ends the pass with the
\* Timeout error: it is the last attempt of the scan, the scan has finished,
\* and on the plaintext pass the record has tls = false, the timeout text as
\* error and nothing else.
C8_TimeoutEndsPass ==
  \A s \in Slots : \A i \in DOMAIN s.log :
    ( s.log[i].ev = "read_timeout" /\ probes[s.log[i].k].probe.name # "NULL" ) =>
      /\ i = Len(s.log)
      /\ s.st = "done"
      /\ ErrorField(s, s.log[i].tls) = Some("deadline has elapsed")
      /\ ~s.log[i].tls =>
           s.out = Some([ target |-> s.t,
                          tls |-> Some(FALSE),
                          tls_response |-> None,
                          tls_service_match |-> None,
                          response |-> None,
                          service_match |-> None,
                          error |-> Some("deadline has elapsed"),
                          tls_error |-> None ])

\* The plaintext pass ended on a read timeout of a second, named probe.
C8_TimedOutOnNamedProbe ==
  \E s \in Slots :
    /\ s.st = "done"
    /\ Len(s.log) = 2
    /\ s.log[2].ev = "read_timeout"
    /\ ~s.log[2].tls
    /\ probes[s.log[2].k].probe.name # "NULL"

\* C9: a read timeout on the NULL probe, when a probe follows it in the
\* catalog, does not end the pass: the next attempt is of the next probe, in
\* the same pass, and when a later probe of the pass matches, the record
\* reports that match and no error for the pass.
C9_NullTimeoutTolerated ==
  \A s \in Slots : \A i \in DOMAIN s.log :
    LET e == s.log[i]
    IN  ( /\ e.ev = "read_timeout"
          /\ probes[e.k].probe.name = "NULL"
          /\ e.k < Len(probes) ) =>
          /\ i = Len(s.log) =>
               /\ Running(s)
               /\ s.tls = e.tls
               /\ s.k = e.k + 1
          /\ i < Len(s.log) =>
               /\ s.log[i + 1].tls = e.tls
               /\ s.log[i + 1].k = e.k + 1
          /\ \A j \in DOMAIN s.log :
               ( j > i /\ s.log[j].tls = e.tls /\ s.log[j].ev = "match"
                 /\ s.st = "done" ) =>
                 /\ IsSome(MatchField(s, e.tls))
                 /\ s.log[j].r \in Unwrap(MatchField(s, e.tls)).re
                 /\ ResponseField(s, e.tls) = Some(Encode(s.log[j].r))
                 /\ ErrorField(s, e.tls) = None

\* The NULL probe timed out first and the next probe matched.
C9_MatchAfterNullTimeout ==
  \E s \in Slots :
    /\ s.st = "done"
    /\ Len(s.log) = 2
    /\ s.log[1].ev = "read_timeout"
    /\ probes[s.log[1].k].probe.name = "NULL"
    /\ s.log[2].ev = "match"
    /\ Unwrap(s.out).tls = Some(FALSE)

\* C10: a TLS pass is run exactly after a plaintext detection whose service
\* begins with "ssl"; it starts at the first probe, every connection of it is
\* TLS-wrapped before the probe is written or read (and none of the plaintext
\* pass is), and the record of a scan with a TLS pass has tls = true, the
\* plaintext detection and the TLS pass's match or error.
C10_TlsPassAfterSslDetection ==
  \A s \in Slots :
    LET plain == PassLog(s, FALSE)
        wrapped == PassLog(s, TRUE)
        matched == plain # <<>> /\ plain[Len(plain)].ev = "match"
        ssl == /\ matched
               /\ \E m \in Rules(probes[plain[Len(plain)].k]) :
                    /\ plain[Len(plain)].r \in m.re
                    /\ m = Unwrap(IF s.tls THEN Some(Unwrap(s.detection).service_match)
                                  ELSE MatchField(s, FALSE))
                    /\ Len(m.service) >= 3
                    /\ m.service[1] = "s" /\ m.service[2] = "s" /\ m.service[3] = "l"
    IN  /\ s.tls <=> ssl
        /\ wrapped # <<>> => s.tls
        /\ \A i \in DOMAIN s.log :
             ( s.log[i].tls /\ i > 1 /\ ~s.log[i - 1].tls ) => s.log[i].k = 1
        /\ ( s.tls /\ Running(s) /\ wrapped = <<>> ) => s.k = 1
        /\ \A i \in DOMAIN s.log :
             s.log[i].ev \in {"miss", "match", "read_timeout", "read_failed",
                              "write_failed"} =>
               s.log[i].secured = s.log[i].tls
        /\ s.st \in {"write", "read"} => s.secured = s.tls
        /\ ( s.st = "done" /\ matched ) =>
             /\ Unwrap(s.out).tls = Some(s.tls)
             /\ Unwrap(s.out).response = Some(Encode(plain[Len(plain)].r))
             /\ Unwrap(s.out).error = None
        /\ ( s.st = "done" /\ s.tls ) =>
             LET e == wrapped[Len(wrapped)]
             IN  IF e.ev = "match"
                 THEN /\ Unwrap(s.out).tls_response = Some(Encode(e.r))
                      /\ IsSome(Unwrap(s.out).tls_service_match)
                      /\ Unwrap(s.out).tls_error = None
                 ELSE /\ IsSome(Unwrap(s.out).tls_error)
                      /\ Unwrap(s.out).tls_service_match = None
        /\ ( s.st = "done" /\ ~s.tls ) =>
             /\ Unwrap(s.out).tls = Some(FALSE)
             /\ Unwrap(s.out).tls_error = None
             /\ Unwrap(s.out).tls_service_match = None
             /\ Unwrap(s.out).tls_response = None

\* A scan whose plaintext pass detected "ssl/http" on the first probe and
\* whose TLS pass matched on its second probe.
C10_TlsPassMatched ==
  \E s \in Slots :
    /\ s.st = "done"
    /\ Unwrap(s.out).tls = Some(TRUE)
    /\ Unwrap(Unwrap(s.out).service_match).service = SvcSslHttp
    /\ IsSome(Unwrap(s.out).tls_service_match)
    /\ Len(PassLog(s, TRUE)) = 2

\* ---------------------------------------------------------------- C11

\* The indices of the rules of a list whose regex hits the response.
Hits(list, response) ==
  { i \in DOMAIN list : response \in list[i].re }

\* The least element of a non-empty set of indices.
Least(S) == CHOOSE i \in S : \A j \in S : i <= j

\* C11: check_match returns the hard match of least index among those whose
\* regex hits the response when there is one; otherwise the soft match of
\* least index among those that hit; otherwise nothing. So whenever some hard
\* match hits, the rule returned is taken from the hard list, wherever the
\* hitting soft matches stand.
C11_HardBeforeSoft ==
  ( IsSome(arg) /\ Unwrap(arg).fn = "check_match" /\ IsSome(ret) ) =>
    LET d == Unwrap(arg).service_probe.directives
        hard == UnwrapOrEmpty(d.matches)
        soft == UnwrapOrEmpty(d.soft_matches)
        r == Unwrap(arg).response
        got == Unwrap(ret)
    IN  /\ got.kind = "returned"
        /\ got.value =
             IF Hits(hard, r) # {} THEN Some(hard[Least(Hits(hard, r))])
             ELSE IF Hits(soft, r) # {} THEN Some(soft[Least(Hits(soft, r))])
             ELSE None

\* A response that the first soft match and only the second hard match hit:
\* the second hard match is returned.
C11_SoftHitsEarlier ==
  /\ IsSome(arg) /\ Unwrap(arg).fn = "check_match" /\ IsSome(ret)
  /\ LET d == Unwrap(arg).service_probe.directives
         hard == UnwrapOrEmpty(d.matches)
         soft == UnwrapOrEmpty(d.soft_matches)
         r == Unwrap(arg).response
     IN  /\ Hits(hard, r) = {2}
         /\ 1 \in Hits(soft, r)
         /\ soft[1] \notin Range(hard)
         /\ Unwrap(ret).value = Some(hard[2])

\* ---------------------------------------------------------------- C12

\* The file read, and the catalog returned, once the reader has been called.
FileRead == Unwrap(arg).file

Loaded == Unwrap(ret).value

CatalogRead ==
  /\ IsSome(arg) /\ Unwrap(arg).fn = "read_service_probes_file"
  /\ IsSome(ret)

\* The lines of the file that begin with Probe, in file order, each parsed
\* on its own.
RECURSIVE ProbeLines(_)
ProbeLines(file) ==
  IF file = <<>> THEN <<>>
  ELSE ( IF StartsWith(Head(file), StrProbe)
         THEN << Unwrap(parse_probe_line(Head(file)).value) >> ELSE <<>> )
       \o ProbeLines(Tail(file))

\* Those of a list of probes that have the given transport, in order.
OfTransport(list, transport) ==
  LET keep == { i \in DOMAIN list : list[i].transport_protocol = transport }
      Nth(k) == CHOOSE i \in keep :
                  Cardinality({ j \in keep : j <= i }) = k
  IN  [ k \in 1..Cardinality(keep) |-> list[Nth(k)] ]

\* C12: for a file with N well-formed Probe lines, with directive, match,
\* comment and blank lines between them, read_service_probes_file returns a
\* catalog of exactly N service probes: as many in tcp_probes as there are
\* TCP Probe lines and as many in udp_probes as there are UDP Probe lines.
C12_EveryProbeLineFiled ==
  CatalogRead =>
    /\ Unwrap(ret).kind = "returned"
    /\ Len(Loaded.tcp_probes) = Len(OfTransport(ProbeLines(FileRead), "TCP"))
    /\ Len(Loaded.udp_probes) = Len(OfTransport(ProbeLines(FileRead), "UDP"))
    /\ Len(Loaded.tcp_probes) + Len(Loaded.udp_probes)
         = Len(ProbeLines(FileRead))

\* ---------------------------------------------------------------- C13

\* a is b with some entries left out.
RECURSIVE IsSubsequence(_, _)
IsSubsequence(a, b) ==
  IF a = <<>> THEN TRUE
  ELSE IF b = <<>> THEN FALSE
  ELSE IF Head(a) = Head(b) THEN IsSubsequence(Tail(a), Tail(b))
  ELSE IsSubsequence(a, Tail(b))

\* The lines of the file whose first token is the keyword, in file order,
\* each parsed on its own.
RECURSIVE RuleLines(_, _)
RuleLines(file, keyword) ==
  IF file = <<>> THEN <<>>
  ELSE ( IF split_whitespace(Head(file)) # <<>>
            /\ split_whitespace(Head(file))[1] = keyword
         THEN << Unwrap(parse_match_line(Head(file)).value) >> ELSE <<>> )
       \o RuleLines(Tail(file), keyword)

ProbesOf(list) == [ i \in DOMAIN list |-> list[i].probe ]

\* C13: the probes of tcp_probes and those of udp_probes stand in the order
\* of their Probe lines in the file, and the entries of every loaded probe's
\* matches and soft_matches stand in the order of their lines in the file.
C13_FileOrderKept ==
  ( CatalogRead /\ Unwrap(ret).kind = "returned" ) =>
    /\ IsSubsequence(ProbesOf(Loaded.tcp_probes),
                     OfTransport(ProbeLines(FileRead), "TCP"))
    /\ IsSubsequence(ProbesOf(Loaded.udp_probes),
                     OfTransport(ProbeLines(FileRead), "UDP"))
    /\ \A sp \in Range(Loaded.tcp_probes) \cup Range(Loaded.udp_probes) :
         /\ IsSubsequence(UnwrapOrEmpty(sp.directives.matches),
                          RuleLines(FileRead, StrMatch))
         /\ IsSubsequence(UnwrapOrEmpty(sp.directives.soft_matches),
                          RuleLines(FileRead, StrSoftmatch))

\* A file from which two different TCP probes were loaded.
C13_TwoProbesLoaded ==
  /\ CatalogRead /\ Unwrap(ret).kind = "returned"
  /\ Len(Loaded.tcp_probes) = 2
  /\ Loaded.tcp_probes[1].probe # Loaded.tcp_probes[2].probe

\* ---------------------------------------------------------------- C14

\* The shaper has been called; its argument and its record.
Shaped == IsSome(arg) /\ Unwrap(arg).fn = "from" /\ IsSome(ret)

ShaperInput == Unwrap(arg).r

Record == Unwrap(ret).value

\* C14: every record of the shaper has exactly one of error and
\* service_match set, and every record with tls = true has service_match set.
C14_ErrorXorMatch ==
  Shaped =>
    /\ IsSome(Record.error) \/ IsSome(Record.service_match)
    /\ ~( IsSome(Record.error) /\ IsSome(Record.service_match) )
    /\ ( Record.tls = Some(TRUE) => IsSome(Record.service_match) )

\* The record of a detection whose TLS pass ended in an error.
C14_TlsPassFailed ==
  /\ Shaped
  /\ ShaperInput.ok
  /\ ShaperInput.v.tag = "WithTls"
  /\ ~ShaperInput.v.tls_wrapped_result.ok
  /\ Record.tls = Some(TRUE)
  /\ IsSome(Record.tls_error)

\* ---------------------------------------------------------------- C15

\* The record with the given fields and every other field absent.
Row(target, tls, response, service_match, tls_response, tls_service_match,
    error, tls_error) ==
  [ target |-> target, tls |-> Some(tls), response |-> response,
    service_match |-> service_match, tls_response |-> tls_response,
    tls_service_match |-> tls_service_match, error |-> error,
    tls_error |-> tls_error ]

\* The Display text of each error.
Text(e) ==
  IF e.kind = "NoDetection" THEN "No Detection"
  ELSE IF e.kind = "Io" THEN to_string(ErrIo)
  ELSE IF e.kind = "Elapsed" THEN to_string(ErrElapsed)
  ELSE to_string(ErrTls)

\* C15: for each of the five input shapes the record is the row of the
\* table, every field the row does not name being absent: WithoutTls(d);
\* WithTls with an inner detection; WithTls with an inner error, where
\* tls_response is set exactly for NoDetection; Err(NoDetection(r));
\* Err of any other error.
C15_TableRows ==
  Shaped =>
    LET t == Unwrap(arg).target
        r == ShaperInput
    IN  Record =
          IF r.ok /\ r.v.tag = "WithoutTls"
          THEN Row(t, FALSE, Some(r.v.detection.response),
                   Some(r.v.detection.service_match), None, None, None, None)
          ELSE IF r.ok /\ r.v.tls_wrapped_result.ok
          THEN Row(t, TRUE, Some(r.v.detection.response),
                   Some(r.v.detection.service_match),
                   Some(r.v.tls_wrapped_result.v.response),
                   Some(r.v.tls_wrapped_result.v.service_match), None, None)
          ELSE IF r.ok
          THEN Row(t, TRUE, Some(r.v.detection.response),
                   Some(r.v.detection.service_match),
                   IF r.v.tls_wrapped_result.v.kind = "NoDetection"
                   THEN Some(Encode(r.v.tls_wrapped_result.v.r)) ELSE None,
                   None, None, Some(Text(r.v.tls_wrapped_result.v)))
          ELSE IF r.v.kind = "NoDetection"
          THEN Row(t, FALSE, Some(Encode(r.v.r)), None, None, None,
                   Some("No Detection"), None)
          ELSE Row(t, FALSE, None, None, None, None, Some(Text(r.v)), None)

\* The record of a scan that ended with NoDetection of a non-empty response.
C15_NoDetectionShaped ==
  /\ Shaped
  /\ ~ShaperInput.ok
  /\ ShaperInput.v.kind = "NoDetection"
  /\ ShaperInput.v.r # RespEof
  /\ Record.response = Some(Encode(ShaperInput.v.r))
  /\ Record.error = Some("No Detection")

\* ---------------------------------------------------------------- C16

\* The send of the pipeline is suspended on a full channel.
SendSuspended == IsSome(sending) /\ Len(chan) = ChannelCap

\* C16: the channel never holds more records than its capacity; while the
\* pipeline's send is suspended on the full channel no target is pulled, no
\* scan is started or advanced and nothing is sent; and as soon as the writer
\* has received a record the suspended send can complete.
C16_BackPressure ==
  /\ [](Len(chan) <= ChannelCap)
  /\ [][ SendSuspended =>
           /\ pulled' = pulled
           /\ targets' = targets
           /\ inflight' = inflight
           /\ sent' = sent ]_vars
  /\ []( ( pipeline = "running" /\ IsSome(sending) /\ Len(chan) < ChannelCap )
           => ENABLED Send )

\* The send is suspended on the full channel while a target waits in the
\* stream and the queue of scans has room for it.
C16_SuspendedWithWorkLeft ==
  /\ SendSuspended
  /\ pipeline = "running"
  /\ targets # <<>>
  /\ CanPull(inflight, config.max_concurrent_scans)

\* ---------------------------------------------------------------- C17

\* C17: no scan lasts longer than (connect timeout + read timeout) x the
\* number of probes of the catalog, plus an allowance for the handshake
\* (taken here as one more timeout), whatever the peer does.
C17_ScanWithinTimeBound ==
  clock.now <= ( TIMEOUT + TIMEOUT ) * Len(probes) + TIMEOUT

\* ---------------------------------------------------------------- C18

ProbeLineParsed ==
  IsSome(arg) /\ Unwrap(arg).fn = "parse_probe_line" /\ IsSome(ret)

\* How often the character occurs in the text.
Occurrences(s, c) == Cardinality({ i \in DOMAIN s : s[i] = c })

\* A line that is not a probe: its first token is not Probe, or its second
\* is no transport, or it has no payload token, or the payload token has a
\* single character, or the delimiter (the payload token's second character)
\* does not occur twice from the payload token on.
NotAProbe(line) ==
  LET parts == split_whitespace(line)
  IN  \/ Len(parts) < 2
      \/ parts[1] # StrProbe
      \/ parts[2] \notin ProbeTransports
      \/ Len(parts) < 4
      \/ Len(parts[4]) < 2
      \/ Occurrences(join(SubSeq(parts, 4, Len(parts)), << " " >>),
                     parts[4][2]) < 2

\* C18: for every line that is not a probe (wrong first token, unparsable
\* transport, missing delimiter: among them the line of the three tokens
\* Probe <transport> <name>, a payload token of one character, and a payload
\* that is never closed) parse_probe_line returns None and fails in no other
\* way.
C18_MalformedLineGivesNone ==
  ( ProbeLineParsed /\ NotAProbe(Unwrap(arg).line) ) =>
    Unwrap(ret) = Returned(None)

\* ---------------------------------------------------------------- C19

\* C19: for a line Probe <transport> <name> q<D><body><D><tail> whose body
\* unescapes, parse_probe_line yields the transport and the name of the
\* second and third tokens, data equal to the bytes of the unescaped body
\* (which may be empty and may hold spaces), and no_payload true exactly when
\* the first token after the closing delimiter is no-payload.
C19_ProbeFields ==
  ( ProbeLineParsed /\ Unwrap(arg).formed
      /\ IsSome(unescape(Unwrap(arg).body)) ) =>
    Unwrap(ret) =
      Returned(Some(
        [ transport_protocol |-> Unwrap(from_str(Unwrap(arg).transport)),
          name |-> Unwrap(arg).name,
          data |-> as_bytes(Unwrap(unescape(Unwrap(arg).body))),
          no_payload |->
            /\ split_whitespace(Unwrap(arg).tail) # <<>>
            /\ split_whitespace(Unwrap(arg).tail)[1] = StrNoPayload ]))

\* ---------------------------------------------------------------- C20

MatchLineParsed ==
  IsSome(arg) /\ Unwrap(arg).fn = "parse_match_line" /\ IsSome(ret)

\* C20: for a line <match|softmatch> <service> m<D><pattern><D><options>
\* <version-info>, parse_match_line yields the service of the second token,
\* the pattern as it stands between the two delimiters, pattern_options equal
\* to the run of non-whitespace right after the closing delimiter (empty when
\* whitespace or the end of the line follows it) and version_info equal to
\* the rest of the line (empty when there is none).
C20_MatchFields ==
  MatchLineParsed =>
    /\ Unwrap(ret).kind = "returned"
    /\ IsSome(Unwrap(ret).value)
    /\ LET m == Unwrap(Unwrap(ret).value)
       IN  /\ m.service = Unwrap(arg).service
           /\ m.pattern = Unwrap(arg).pattern
           /\ m.pattern_options = Unwrap(arg).options
           /\ m.version_info = trim(Unwrap(arg).rest)

\* ---------------------------------------------------------------- C21

Unescaped == IsSome(arg) /\ Unwrap(arg).fn = "unescape" /\ IsSome(ret)

IsHexDigit(c) ==
  c \in { "0", "1", "2", "3", "4", "5", "6", "7", "8", "9",
          "a", "b", "c", "d", "e", "f", "A", "B", "C", "D", "E", "F" }

\* The length of the unit that starts s: one character outside an escape, or
\* a whole escape.
UnitLen(s) ==
  IF Head(s) # "\\" THEN 1 ELSE IF Len(s) >= 2 /\ s[2] = "x" THEN 4 ELSE 2

\* The text cut left to right into its units; the last one may be cut short.
RECURSIVE Units(_)
Units(s) ==
  LET k == IF UnitLen(s) < Len(s) THEN UnitLen(s) ELSE Len(s)
  IN  IF s = <<>> THEN <<>>
      ELSE << Slice(s, 0, k) >> \o Units(SliceFrom(s, k))

\* An ASCII text in which every backslash starts a whole escape: a character
\* follows it, and two hexadecimal digits follow \x.
WellEscaped(s) ==
  /\ \A i \in DOMAIN s : s[i] \in DOMAIN Ascii
  /\ \A i \in DOMAIN Units(s) :
       LET u == Units(s)[i]
       IN  /\ Len(u) = UnitLen(u)
           /\ Len(u) = 4 => IsHexDigit(u[3]) /\ IsHexDigit(u[4])

\* The byte the claim gives for one unit.
UnitByte(u) ==
  IF Len(u) = 1 THEN Ascii[u[1]]
  ELSE IF Len(u) = 4 THEN 16 * HexVal(u[3]) + HexVal(u[4])
  ELSE CASE u[2] = "0" -> 0
         [] u[2] = "n" -> 10
         [] u[2] = "r" -> 13
         [] u[2] = "t" -> 9
         [] OTHER -> Ascii[u[2]]

PortsParsed == IsSome(arg) /\ Unwrap(arg).fn = "parse_ports" /\ IsSome(ret)

\* A number in 0..65535 written in decimal digits; a leading + sign is taken
\* as part of the number.
Digits(t) == IF t # <<>> /\ Head(t) = "+" THEN Tail(t) ELSE t

IsPort(t) ==
  /\ Digits(t) # <<>>
  /\ \A i \in DOMAIN Digits(t) :
       Digits(t)[i] \in { "0", "1", "2", "3", "4", "5", "6", "7", "8", "9" }
  /\ DigitsValue(Digits(t)) <= 65535

PortValue(t) == DigitsValue(Digits(t))

\* The offsets of the dashes of an element.
Dashes(e) == { i \in DOMAIN e : e[i] = "-" }

\* An element of the form N or M-N.
IsPortElement(e) ==
  \/ IsPort(e)
  \/ /\ Cardinality(Dashes(e)) = 1
     /\ \E i \in Dashes(e) :
          IsPort(SubSeq(e, 1, i - 1)) /\ IsPort(SubSeq(e, i + 1, Len(e)))

\* The ports an element of the form N or M-N stands for.
PortsOfElement(e) ==
  IF IsPort(e) THEN << PortValue(e) >>
  ELSE LET i == CHOOSE i \in Dashes(e) : TRUE
           m == PortValue(SubSeq(e, 1, i - 1))
           n == PortValue(SubSeq(e, i + 1, Len(e)))
       IN  [ k \in 1..( n - m + 1 ) |-> m + k - 1 ]

RECURSIVE Flatten(_)
Flatten(lists) ==
  IF lists = <<>> THEN <<>> ELSE Head(lists) \o Flatten(Tail(lists))

\* C22: parse_ports returns, in list order, N for each element N and M..N in
\* ascending order for each element M-N; when an element has neither form
\* with numbers in 0..65535 it returns None and the ports directive panics.
C22_PortsExpression ==
  PortsParsed =>
    LET elements == split(Unwrap(arg).ports, ",")
        parsed == Unwrap(ret).value.parsed
        after == Unwrap(ret).value.after
    IN  IF \A k \in DOMAIN elements : IsPortElement(elements[k])
        THEN /\ parsed = Some(Flatten([ k \in DOMAIN elements |->
                                          PortsOfElement(elements[k]) ]))
             /\ IsSome(after)
             /\ Unwrap(after).ports = parsed
        ELSE /\ parsed = None
             /\ after = None

\* ---------------------------------------------------------------- C23

\* The number of records the writer task has received from the channel.
Received == Len(sent) - Len(chan)

\* C23: the writer task writes one JSON line for each record it receives, in
\* the order received, and has flushed it before it receives the next record;
\* the count it returns is the number of lines written.
C23_OneLinePerRecord ==
  /\ [ i \in DOMAIN written |-> written[i].target ]
       = SubSeq(sent, 1, Len(written))
  /\ writer.pc \in {"recv", "done"} =>
       /\ Len(written) = Received
       /\ writer.buf = <<>>
  /\ writer.pc \in {"json", "newline", "flush"} =>
       /\ Len(written) = Received - 1
       /\ Unwrap(writer.result).target = sent[Received]
  /\ writer.n = Len(written)

\* The task has returned Ok(2) after two records.
C23_TwoLinesCounted ==
  /\ writer.pc = "done"
  /\ writer.n = 2
  /\ Len(written) = 2
  /\ Len(sent) = 2

\* ---------------------------------------------------------------- C24

\* A row of the three columns ip, domain, port with a port in 0..65535.
WellFormedRow(row) == Len(row) = 3 /\ IsPort(row[3])

TargetOfRow(row) ==
  [ ip |-> row[1],
    domain |-> IF row[2] = <<>> THEN None ELSE Some(row[2]),
    port |-> PortValue(row[3]) ]

\* C24: a malformed row gives no target and no record and does not stop
\* intake: the targets scanned and still to scan are the well-formed rows, in
\* row order, and every record sent is for one of them.
C24_MalformedRowSkipped ==
  ( IsSome(arg) /\ Unwrap(arg).fn = "run" ) =>
    LET rows == Unwrap(arg).rows
        good == SelectSeq(rows, WellFormedRow)
    IN  /\ pulled \o targets = [ i \in DOMAIN good |-> TargetOfRow(good[i]) ]
        /\ \A i \in DOMAIN sent : \E k \in DOMAIN good :
             sent[i] = TargetOfRow(good[k])

\* ---------------------------------------------------------------- C25

TlsFailure == Some(to_string(ErrTls))

\* C25: a TLS handshake is attempted only in the TLS pass, which follows a
\* plaintext detection of a service beginning with "ssl"; so a Tls error is
\* found only in tls_error of a record with tls = true, never in error, and a
\* record with tls = false has no tls_error, tls_response or
\* tls_service_match.
C25_TlsOnlyInTlsPass ==
  \A s \in Slots :
    /\ s.st = "handshake" =>
         /\ s.tls
         /\ IsSome(s.detection)
         /\ StartsWith(Unwrap(s.detection).service_match.service, SvcSsl)
    /\ \A i \in DOMAIN s.log :
         ( s.log[i].ev = "handshake_failed" \/ s.log[i].secured ) =>
           /\ s.log[i].tls
           /\ \E j \in 1..( i - 1 ) : ~s.log[j].tls /\ s.log[j].ev = "match"
    /\ s.st = "done" =>
         LET o == Unwrap(s.out)
         IN  /\ o.error # TlsFailure
             /\ o.tls_error = TlsFailure => o.tls = Some(TRUE)
             /\ o.tls = Some(FALSE) =>
                  /\ o.tls_error = None
                  /\ o.tls_response = None
                  /\ o.tls_service_match = None

\* A scan whose TLS pass ended in a failed handshake.
C25_HandshakeFailedRecorded ==
  \E s \in Slots :
    /\ s.st = "done"
    /\ Unwrap(s.out).tls = Some(TRUE)
    /\ Unwrap(s.out).tls_error = TlsFailure
    /\ Unwrap(s.out).error = None
    /\ s.log[Len(s.log)].ev = "handshake_failed"

\* ---------------------------------------------------------------- C26

\* The numbers of the lines that begin with Probe.
ProbeAt(file) == { i \in DOMAIN file : StartsWith(file[i], StrProbe) }

\* The lines after Probe line i up to the next Probe line or the end.
BlockOf(file, i) ==
  LET later == { j \in ProbeAt(file) : j > i }
      end == IF later = {} THEN Len(file) + 1 ELSE Least(later)
  IN  SubSeq(file, i + 1, end - 1)

\* For every Probe line in file order: its probe and the match and softmatch
\* lines of its block.
Blocks(file) ==
  LET at == ProbeAt(file)
      Nth(k) == CHOOSE i \in at : Cardinality({ j \in at : j <= i }) = k
  IN  [ k \in 1..Cardinality(at) |->
          [ probe |-> Unwrap(parse_probe_line(file[Nth(k)]).value),
            matches |-> RuleLines(BlockOf(file, Nth(k)), StrMatch),
            soft_matches |-> RuleLines(BlockOf(file, Nth(k)), StrSoftmatch) ] ]

\* The same of the probes of a loaded list.
Collected(list) ==
  [ i \in DOMAIN list |->
      [ probe |-> list[i].probe,
        matches |-> UnwrapOrEmpty(list[i].directives.matches),
        soft_matches |-> UnwrapOrEmpty(list[i].directives.soft_matches) ] ]

\* C26: every match and softmatch line between a Probe line and the next
\* Probe line or the end of the file is collected into that probe's matches
\* and soft_matches; comment and blank lines between them do not end the
\* collection.
C26_BlockCollected ==
  CatalogRead =>
    /\ Unwrap(ret).kind = "returned"
    /\ Collected(Loaded.tcp_probes)
         = SelectSeq(Blocks(FileRead),
                     LAMBDA b : b.probe.transport_protocol = "TCP")
    /\ Collected(Loaded.udp_probes)
         = SelectSeq(Blocks(FileRead),
                     LAMBDA b : b.probe.transport_protocol = "UDP")

\* ---------------------------------------------------------------- C27

\* The probe attempts of a scan that got a connection and have ended.
Attempted(s) ==
  { i \in DOMAIN s.log : s.log[i].ev \notin {"connect_timeout", "connect_failed"} }

\* C27: every probe attempt uses a connection opened for it, a scan holds at
\* most one open connection, the connection of an attempt that has ended is
\* closed before the next is opened, and a scan in a terminal state holds no
\* open socket.
C27_OneConnectionPerAttempt ==
  \A s \in Slots :
    /\ s.st # "dropped" =>
         s.opened = Cardinality(Attempted(s)) + ( IF s.sock THEN 1 ELSE 0 )
    /\ s.st = "dropped" => s.opened - Cardinality(Attempted(s)) \in {0, 1}
    /\ s.st = "connect" => ~s.sock /\ ~s.secured
    /\ s.st \in {"handshake", "write", "read"} => s.sock
    /\ s.st \in {"done", "panicked", "dropped"} => ~s.sock /\ ~s.secured

\* A scan that has ended after three connections, all closed.
C27_ThreeConnectionsClosed ==
  \E s \in Slots :
    /\ s.st = "done"
    /\ s.opened = 3
    /\ Cardinality(Attempted(s)) = 3
    /\ ~s.sock

\* ---------------------------------------------------------------- C28

ReadAndMatched ==
  /\ IsSome(arg) /\ Unwrap(arg).fn = "run_service_probe_and_match"
  /\ IsSome(ret)

\* The bytes the single read returned: those waiting on the stream, up to
\* 1600 of them.
BytesRead ==
  LET data == Unwrap(arg).data
  IN  SubSeq(data, 1, IF Len(data) < 1600 THEN Len(data) ELSE 1600)

\* C28: the response of a detection is the base64 of exactly the bytes the
\* read returned, at most 1600 of them, whatever an earlier probe left in the
\* buffer, and the rule reported is the first one hitting those same bytes.
C28_ResponseIsBytesRead ==
  ReadAndMatched =>
    LET out == Unwrap(ret).value
        hit == check_match(Unwrap(arg).service_probe, BytesRead)
    IN  /\ Len(BytesRead) <= 1600
        /\ out.result.ok <=> IsSome(hit)
        /\ out.result.ok =>
             /\ out.result.v.response = Encode(BytesRead)
             /\ out.result.v.service_match = Unwrap(hit)
        /\ ~out.result.ok => out.result.v = NoDetection(BytesRead)

\* A detection on a read shorter than what an earlier probe left behind.
C28_StaleBytesBehind ==
  /\ ReadAndMatched
  /\ Unwrap(arg).buf = RespHttp
  /\ Unwrap(arg).data = RespTlsAlert
  /\ Unwrap(ret).value.buf = << 21, 3, 84 >>
  /\ Unwrap(ret).value.result.ok
  /\ Unwrap(ret).value.result.v.response = Encode(RespTlsAlert)

\* ---------------------------------------------------------------- C29

\* The connections a scan has attempted: one per attempt that has ended and
\* one for the attempt in progress.
ConnectionsAttempted(s) == Len(s.log) + ( IF Running(s) THEN 1 ELSE 0 )

\* At most a plaintext pass and then one TLS pass, each of at most one
\* attempt per probe.
AtMostTwoPasses ==
  \A s \in Slots :
    /\ \A i, j \in DOMAIN s.log : ( i < j /\ s.log[i].tls ) => s.log[j].tls
    /\ Len(PassLog(s, FALSE)) + ( IF Running(s) /\ ~s.tls THEN 1 ELSE 0 )
         <= Len(probes)
    /\ Len(PassLog(s, TRUE)) + ( IF Running(s) /\ s.tls THEN 1 ELSE 0 )
         <= Len(probes)
    /\ ConnectionsAttempted(s) <= 2 * Len(probes)

\* The target has been pulled and its scan is in a terminal state.
ScanEnded == targets = <<>> /\ \A s \in Slots : ~Running(s)

\* C29: a target gets at most a plaintext pass and one TLS pass, so at most
\* 2 x |tcp_probes| connections are attempted for it; and its scan, every
\* connect and read of which completes or times out, reaches a terminal
\* state.
C29_TwoPassesThenEnd == []AtMostTwoPasses /\ <>ScanEnded

\* ---------------------------------------------------------------- C30

\* start_scan has returned: the stream has ended, every scan has finished and
\* every record has been sent.
ReturnedWhenAllSent ==
  pipeline = "returned" =>
    /\ targets = <<>> /\ inflight = <<>> /\ sending = None
    /\ sent = pulled

\* The writer task returns Ok only once the Sender is gone and the channel is
\* drained; after a start_scan that returned, its count is the number of
\* targets scanned and every record is in the file.
DrainedBeforeOk ==
  writer.pc = "done" =>
    /\ SendersGone /\ chan = <<>>
    /\ pipeline = "returned" =>
         /\ writer.n = Len(pulled)
         /\ [ i \in DOMAIN written |-> written[i].target ] = pulled

\* C30: once the input has ended and every scan has finished, start_scan
\* returns and drops the Sender; the writer task drains the records still in
\* the channel and ends with a count equal to the number of targets scanned:
\* no record is lost at shutdown and the writer task is not waited on for
\* ever.
C30_ShutdownDrains ==
  /\ [](ReturnedWhenAllSent /\ DrainedBeforeOk)
  /\ ( pipeline = "returned" ) ~> ( writer.pc \in {"done", "failed"} )

\* start_scan has returned after two targets while a record is still in the
\* channel and another in the writer's hand.
C30_ReturnedWithRecordsBuffered ==
  /\ pipeline = "returned"
  /\ Len(pulled) = 2
  /\ chan # <<>>
  /\ writer.pc \in {"json", "newline", "flush"}
  /\ Len(written) = 0

\* ---------------------------------------------------------------- C31

ConnectEnded(e) == e.ev \in {"connect_timeout", "connect_failed"}

\* The error a failed connect returns.
ConnectErrorOf(e) == IF e.ev = "connect_timeout" THEN ErrElapsed ELSE ErrIo

\* C31: a connect that times out or fails, on any probe and on the probe
\* named NULL too, ends its pass with that error: it is the last attempt of
\* the pass, no later probe is attempted, and the record reports the Elapsed
\* or the I/O error of the connect; after a failed connect of the plaintext
\* pass there is no TLS pass. Only a read timeout on the probe named NULL is
\* swallowed: the loop goes on to the next probe.
C31_ConnectFailureEndsPass ==
  \A s \in Slots : \A tls \in BOOLEAN :
    LET log == PassLog(s, tls)
    IN  /\ \A i \in DOMAIN log :
             ConnectEnded(log[i]) =>
               /\ i = Len(log)
               /\ s.st = "done"
               /\ ErrorField(s, tls) = Some(to_string(ConnectErrorOf(log[i])))
               /\ ~tls => PassLog(s, TRUE) = <<>> /\ Unwrap(s.out).tls = Some(FALSE)
        /\ ( /\ s.log # <<>>
             /\ s.log[Len(s.log)].tls = tls
             /\ s.log[Len(s.log)].ev = "read_timeout"
             /\ probes[s.log[Len(s.log)].k].probe.name = "NULL" ) =>
             \/ Running(s) /\ s.tls = tls /\ s.k = s.log[Len(s.log)].k + 1
             \/ s.st = "panicked"

\* The connect for the probe named NULL timed out with a later probe in the
\* catalog: the scan has ended with the timeout and one attempt.
C31_NullConnectTimeoutEnded ==
  \E s \in Slots :
    /\ Len(probes) > 1
    /\ Len(s.log) = 1
    /\ s.log[1].ev = "connect_timeout"
    /\ probes[s.log[1].k].probe.name = "NULL"
    /\ s.st = "done"
    /\ Unwrap(s.out).error = Some("deadline has elapsed")

\* ---------------------------------------------------------------- C32

\* The second tokens of the lines of a block whose first token is the
\* keyword.
DirectiveValues(block, keyword) ==
  { split_whitespace(block[i])[2] :
      i \in { j \in DOMAIN block :
                /\ Len(split_whitespace(block[j])) >= 2
                /\ split_whitespace(block[j])[1] = keyword } }

\* Everything recorded under a loaded probe is a line of the block.
RecordedFrom(sp, block) ==
  LET d == sp.directives
  IN  /\ IsSubsequence(UnwrapOrEmpty(d.matches), RuleLines(block, StrMatch))
      /\ IsSubsequence(UnwrapOrEmpty(d.soft_matches),
                       RuleLines(block, StrSoftmatch))
      /\ IsSome(d.rarity) =>
           \E v \in DirectiveValues(block, <<"r", "a", "r", "i", "t", "y">>) :
             parse_usize(v) = d.rarity
      /\ IsSome(d.total_wait_ms) =>
           \E v \in DirectiveValues(block,
                      <<"t", "o", "t", "a", "l", "w", "a", "i", "t", "m", "s">>) :
             parse_usize(v) = d.total_wait_ms
      /\ IsSome(d.tcp_wrapped_ms) =>
           \E v \in DirectiveValues(block,
                      <<"t", "c", "p", "w", "r", "a", "p", "p", "e", "d", "m", "s">>) :
             parse_usize(v) = d.tcp_wrapped_ms
      /\ IsSome(d.ports) =>
           \E v \in DirectiveValues(block, StrPorts) : parse_ports(v) = d.ports
      /\ IsSome(d.ssl_ports) =>
           \E v \in DirectiveValues(block, <<"s", "s", "l">> \o StrPorts) :
             parse_ports(v) = d.ssl_ports
      /\ IsSome(d.fallback) =>
           \E v \in DirectiveValues(block,
                      <<"f", "a", "l", "l", "b", "a", "c", "k">>) :
             Some(split(v, ",")) = d.fallback

\* The probes of a loaded list can be laid on Probe lines of the file, in
\* file order, every probe on a line that parses to it, so that everything
\* recorded under a probe stands in the block of its line.
OwnBlocksOnly(list, file) ==
  \E at \in [ DOMAIN list -> ProbeAt(file) ] :
    /\ \A i, j \in DOMAIN list : i < j => at[i] < at[j]
    /\ \A i \in DOMAIN list :
         /\ parse_probe_line(file[at[i]]).value = Some(list[i].probe)
         /\ RecordedFrom(list[i], BlockOf(file, at[i]))

\* C32: in the loaded catalog every match, softmatch and directive line is
\* recorded under the nearest Probe line before it in the file or not at all,
\* never under another probe, whatever the arrangement of Probe, directive,
\* match, comment and blank lines.
C32_NoLineUnderAnotherProbe ==
  ( CatalogRead /\ Unwrap(ret).kind = "returned" ) =>
    /\ OwnBlocksOnly(Loaded.tcp_probes, FileRead)
    /\ OwnBlocksOnly(Loaded.udp_probes, FileRead)

\* A Probe line, a second Probe line right after it and a match line: the
\* first probe is loaded with no rule and the match line is recorded nowhere.
C32_LineAfterLostProbeUnrecorded ==
  /\ CatalogRead /\ Unwrap(ret).kind = "returned"
  /\ Len(FileRead) = 3
  /\ ProbeAt(FileRead) = {1, 2}
  /\ RuleLines(FileRead, StrMatch) # <<>>
  /\ Len(Loaded.tcp_probes) + Len(Loaded.udp_probes) = 1
  /\ \A sp \in Range(Loaded.tcp_probes) \cup Range(Loaded.udp_probes) :
       sp.directives.matches = None

====
